---- MODULE Spec2Model ----
(***************************************************************************)
(* Surface lifecycle state machine of a ttauri window:                     *)
(* Window_vulkan::build / teardown / render and the WM_DESTROY branch of   *)
(* gui_window_vulkan_win32::windowProc.                                    *)
(*                                                                         *)
(* The window object is one record, win.  Every handler is an operator     *)
(* from window records to window records, written statement by statement   *)
(* from the source, and an action applies it as one atomic step: every     *)
(* handler holds gui_system_mutex from its first to its last statement.    *)
(* A handler writes the trace of the calls it makes on GPU objects, render *)
(* stages and the delegate to win.log, together with the liveness of the   *)
(* object at the moment of the call ("null": handle never assigned,        *)
(* "live": created and not destroyed, "dead": destroyed, handle dangling). *)
(*                                                                         *)
(* Two further specifications over the same variable follow the first:     *)
(* WindowProcSpec, the window procedure and render() statement by          *)
(* statement on their two threads, with gui_system_mutex between them, and *)
(* ImageCountSpec, the image count of getImageCountAndExtent over a range  *)
(* of defaults and limits.                                                 *)
(***************************************************************************)
EXTENDS Integers, Sequences, FiniteSets, TLC

VARIABLES win

vars == <<win>>

(***************************************************************************)
(* Bounds of the model.                                                    *)
(***************************************************************************)
\* Surface extents range over 0..MaxWidth by 0..MaxHeight.
MaxWidth == 2
MaxHeight == 1

\* acquireNextImageKHR hands out the image indices 0..MaxIndex.
MaxIndex == 1

(***************************************************************************)
(* Window_base::State.  The order is the order of the enumeration:         *)
(* teardown() compares states with >=.                                     *)
(***************************************************************************)
States ==
    <<"NoWindow", "NoDevice", "NoSurface", "NoSwapchain", "ReadyToRender",
      "SwapchainLost", "SurfaceLost", "DeviceLost", "WindowLost">>

StateSet == {States[i] : i \in 1..Len(States)}

StateOrd(s) == CHOOSE i \in 1..Len(States) : States[i] = s

\* a >= b on Window_base::State
StateGE(a, b) == StateOrd(a) >= StateOrd(b)

LostMarkers == {"SwapchainLost", "SurfaceLost", "DeviceLost", "WindowLost"}

(***************************************************************************)
(* The render stages, in the order build() calls them; teardown() calls    *)
(* them in the opposite order.                                             *)
(***************************************************************************)
Pipelines ==
    <<"flatPipeline", "boxPipeline", "imagePipeline", "SDFPipeline", "toneMapperPipeline">>

PipelineSet == {Pipelines[i] : i \in 1..Len(Pipelines)}

ReversedPipelines == [i \in 1..Len(Pipelines) |-> Pipelines[Len(Pipelines) + 1 - i]]

\* The lifecycle levels of a stage; a stage exists ("Window") from initialize().
Levels == {"Window", "Device", "Surface", "Swapchain"}

(***************************************************************************)
(* The GPU object handles that are members of Window_vulkan.               *)
(***************************************************************************)
SwapchainObjects ==
    {"swapchain", "depthImage", "colorImage", "renderPass",
     "depthImageView", "colorImageView", "commandBuffer",
     "imageAvailableSemaphore", "renderFinishedSemaphore", "renderFinishedFence"}

Objects == SwapchainObjects \cup {"intrinsic"}

Extents == [width : 0..MaxWidth, height : 0..MaxHeight]

NoExtent == [width |-> 0, height |-> 0]

(***************************************************************************)
(* What the collaborators answer during one call of build():               *)
(*   score    gui_device_vulkan::score of the new surface,                 *)
(*   caps1    getSurfaceCapabilitiesKHR as called by readSurfaceExtent,    *)
(*   create   the result of createSwapchainKHR,                            *)
(*   caps2    getSurfaceCapabilitiesKHR as called by checkSurfaceExtent.   *)
(***************************************************************************)
\* The image-count limits a surface reports: minImageCount, maxImageCount
\* (0: no limit).
ImageCountLimits == {<<2, 8>>, <<1, 2>>}

SurfaceCaps ==
    {c \in [res : {"eSuccess", "eErrorSurfaceLostKHR"},
            minImageCount : {l[1] : l \in ImageCountLimits},
            maxImageCount : {l[2] : l \in ImageCountLimits},
            currentExtent : Extents] :
        /\ <<c.minImageCount, c.maxImageCount>> \in ImageCountLimits
        /\ c.res = "eErrorSurfaceLostKHR" =>
               c.minImageCount = 2 /\ c.maxImageCount = 8 /\ c.currentExtent = NoExtent}

CreateResults == {"eSuccess", "eErrorSurfaceLostKHR", "eErrorOutOfDeviceMemory"}

\* widget->preferred_size() of the window widget.
minimum_widget_size == [width |-> 1, height |-> 1]
maximum_widget_size == [width |-> 1, height |-> 1]

\* Window_vulkan::defaultNumberOfSwapchainImages
defaultNumberOfSwapchainImages == 3

(***************************************************************************)
(* Trace entries.                                                          *)
(***************************************************************************)
Entry(op, obj, st) ==
    [op |-> op, obj |-> obj, st |-> st, res |-> "", n |-> 0, extent |-> NoExtent]

EntryRes(op, obj, st, res) ==
    [op |-> op, obj |-> obj, st |-> st, res |-> res, n |-> 0, extent |-> NoExtent]

Log(w, e) == [w EXCEPT !.log = Append(@, e)]

\* w.flow is the control flow of the handler that is executing:
\*   "run"     executing statements,
\*   "return"  an early return of build() or render() is unwinding,
\*   "threw"   a gui_error is propagating out of the handler,
\*   "aborted" tt_assert failed, "crashed" undefined behaviour killed the
\*   process, "hung" a wait never returns: the process takes no more steps.
Running(w) == w.flow = "run"

Halted(w) == w.flow \in {"aborted", "crashed", "hung"}

\* Statements run in program order: v is the window (or the result) after
\* the statements so far, F the statements that follow, applied to its value.
Bind(v, F(_)) == CHOOSE r \in {F(x) : x \in {v}} : TRUE

\* Using a destroyed handle is undefined behaviour: the driver either
\* ignores it or the process dies; w.ubCrash is the outcome of this run.
UB(w) ==
    IF w.ubCrash THEN [w EXCEPT !.flow = "crashed", !.ub = TRUE] ELSE [w EXCEPT !.ub = TRUE]

\* A call that reads or writes through the handle obj.
Use(w, op, obj) ==
    IF ~Running(w) THEN w
    ELSE IF w.obj[obj] = "live"
    THEN Log(w, Entry(op, obj, "live"))
    ELSE UB(Log(w, Entry(op, obj, w.obj[obj])))

\* A creation call whose result is assigned to the handle obj.
Create(w, op, obj) ==
    IF ~Running(w) THEN w
    ELSE [Log(w, EntryRes(op, obj, w.obj[obj], "created")) EXCEPT !.obj[obj] = "live"]

\* A destroy call on the handle obj; the handle keeps its value.
\* Destroying a null handle is a no-op of the API.
Destroy(w, op, obj) ==
    IF ~Running(w) THEN w
    ELSE CASE w.obj[obj] = "live" -> [Log(w, Entry(op, obj, "live")) EXCEPT !.obj[obj] = "dead"]
           [] w.obj[obj] = "null" -> Log(w, Entry(op, obj, "null"))
           [] OTHER -> UB(Log(w, Entry(op, obj, w.obj[obj])))

\* The level a lifecycle level is built on.
Below(lvl) ==
    CASE lvl = "Swapchain" -> "Surface"
      [] lvl = "Surface" -> "Device"
      [] OTHER -> "Window"

\* The number of subpasses buildRenderPasses declares in subpassDescriptions.
subpassCount == 5

\* The stages given the subpasses in the reverse order.
subpassGivenReversed ==
    [flatPipeline |-> 4, boxPipeline |-> 3, imagePipeline |-> 2, SDFPipeline |-> 1,
     toneMapperPipeline |-> 0]

\* The subpass of the render pass each stage is given by build().
subpassGiven ==
    [flatPipeline |-> 0, boxPipeline |-> 1, imagePipeline |-> 2, SDFPipeline |-> 3,
     toneMapperPipeline |-> 4]

\* One lifecycle hook of one render stage: the entry keeps the level of the
\* stage before the call in st and the level below it in res;
\* buildForNewSwapchain hands the stage its subpass.
Hook(w, op, p, lvl, after) ==
    IF ~Running(w) THEN w
    ELSE IF op = "buildForNewSwapchain"
    THEN [Log(w, [EntryRes(op, p, w.stage[p][lvl], w.stage[p][Below(lvl)])
                     EXCEPT !.n = subpassGiven[p]])
             EXCEPT !.stage[p][lvl] = after, !.subpass[p] = subpassGiven[p]]
    ELSE [Log(w, EntryRes(op, p, w.stage[p][lvl], w.stage[p][Below(lvl)]))
             EXCEPT !.stage[p][lvl] = after]

\* The same hook on the stages ps, in the order of ps.
RECURSIVE Hooks(_, _, _, _, _)
Hooks(w, op, ps, lvl, after) ==
    IF ps = <<>> \/ ~Running(w) THEN w
    ELSE Bind(Hook(w, op, Head(ps), lvl, after), LAMBDA w1 :
         Hooks(w1, op, Tail(ps), lvl, after))

Enter(w, fn) == IF Running(w) THEN Log(w, Entry("enter", fn, w.state)) ELSE w

\* The function fn returns to its caller, at its end or by a return statement.
Leave(w, fn) ==
    IF w.flow \in {"run", "return"}
    THEN [Log(w, Entry("leave", fn, w.state)) EXCEPT !.flow = "run"]
    ELSE w

Return(w) == IF Running(w) THEN [w EXCEPT !.flow = "return"] ELSE w

SetState(w, s) == IF Running(w) THEN [w EXCEPT !.state = s] ELSE w

\* waitForFences returning without waiting for the signal.
waitForFencesReturningAtOnce(w) == Use(w, "waitForFences", "renderFinishedFence")

(***************************************************************************)
(* waitForFences({renderFinishedFence}, VK_TRUE, max): returns once the    *)
(* fence is signaled; a fence that nothing will signal is waited on for    *)
(* ever.                                                                   *)
(***************************************************************************)
waitForFences(w) ==
    Bind(Use(w, "waitForFences", "renderFinishedFence"), LAMBDA u :
    IF ~Running(u) \/ u.obj["renderFinishedFence"] # "live" THEN u
    ELSE IF u.fenceSignal = "unsignaled"
    THEN [u EXCEPT !.flow = "hung"]
    ELSE [u EXCEPT !.fenceSignal = "signaled", !.gpuBusy = FALSE])

(***************************************************************************)
(* Window_vulkan::waitIdle                                                 *)
(***************************************************************************)
\* waitIdle with the device wait-idle before the wait on the fence.
waitIdleBeforeTheFence(w) ==
    IF ~Running(w) THEN w
    ELSE IF ~w.device
    THEN [Log(w, EntryRes("tt_assert", "_device", "null", "failed")) EXCEPT !.flow = "aborted"]
    ELSE Bind([Log(w, Entry("waitIdle", "_device", "live")) EXCEPT
                  !.gpuBusy = FALSE,
                  !.fenceSignal = IF @ = "queued" THEN "signaled" ELSE @], LAMBDA w1 :
         IF w1.obj["renderFinishedFence"] # "null" THEN waitForFences(w1) ELSE w1)

waitIdle(w) ==
    IF ~Running(w) THEN w
    ELSE IF ~w.device
    THEN \* tt_assert(_device) fails
         [Log(w, EntryRes("tt_assert", "_device", "null", "failed")) EXCEPT !.flow = "aborted"]
    ELSE Bind(IF w.obj["renderFinishedFence"] # "null" THEN waitForFences(w) ELSE w, LAMBDA w1 :
         IF ~Running(w1) THEN w1
         ELSE [Log(w1, Entry("waitIdle", "_device", "live")) EXCEPT
                  !.gpuBusy = FALSE,
                  !.fenceSignal = IF @ = "queued" THEN "signaled" ELSE @])

(***************************************************************************)
(* The teardown functions of the swapchain level, the surface and the      *)
(* device.                                                                 *)
(***************************************************************************)
teardownSemaphores(w) ==
    Bind(Destroy(w, "destroy", "renderFinishedSemaphore"), LAMBDA w1 :
    Bind(Destroy(w1, "destroy", "imageAvailableSemaphore"), LAMBDA w2 :
    Destroy(w2, "destroy", "renderFinishedFence")))

teardownCommandBuffers(w) == Destroy(w, "freeCommandBuffers", "commandBuffer")

\* Destroys the n elements of a vector of live handles.
RECURSIVE DestroyEach(_, _, _)
DestroyEach(w, obj, n) ==
    IF n = 0 \/ ~Running(w) THEN w
    ELSE Bind(Log(w, [Entry("destroy", obj, "live") EXCEPT !.n = n]), LAMBDA w1 :
         DestroyEach(w1, obj, n - 1))

\* teardownFramebuffers without swapchainImageViews.clear().
teardownFramebuffersKeepingImageViews(w) ==
    Bind(DestroyEach(w, "swapchainFramebuffers", w.swapchainFramebuffers), LAMBDA w1 :
    Bind(IF Running(w1) THEN [w1 EXCEPT !.swapchainFramebuffers = 0] ELSE w1, LAMBDA w2 :
    Bind(DestroyEach(w2, "swapchainImageViews", w2.swapchainImageViews), LAMBDA w3 :
    Bind(Destroy(w3, "destroy", "depthImageView"), LAMBDA w5 :
    Destroy(w5, "destroy", "colorImageView")))))

teardownFramebuffers(w) ==
    Bind(DestroyEach(w, "swapchainFramebuffers", w.swapchainFramebuffers), LAMBDA w1 :
    Bind(IF Running(w1) THEN [w1 EXCEPT !.swapchainFramebuffers = 0] ELSE w1, LAMBDA w2 :
    Bind(DestroyEach(w2, "swapchainImageViews", w2.swapchainImageViews), LAMBDA w3 :
    Bind(IF Running(w3) THEN [w3 EXCEPT !.swapchainImageViews = 0] ELSE w3, LAMBDA w4 :
    Bind(Destroy(w4, "destroy", "depthImageView"), LAMBDA w5 :
    Destroy(w5, "destroy", "colorImageView"))))))

teardownRenderPasses(w) == Destroy(w, "destroy", "renderPass")

teardownSwapchain(w) ==
    Bind(Destroy(w, "destroy", "swapchain"), LAMBDA w1 :
    Bind(Destroy(w1, "destroyImage", "depthImage"), LAMBDA w2 :
    Destroy(w2, "destroyImage", "colorImage")))

teardownSurface(w) == Destroy(w, "destroySurfaceKHR", "intrinsic")

teardownDevice(w) ==
    IF ~Running(w) THEN w
    ELSE [Log(w, Entry("teardownDevice", "_device", IF w.device THEN "live" ELSE "null"))
             EXCEPT !.device = FALSE]

closingWindow(w) ==
    IF ~Running(w) THEN w
    ELSE [Log(w, Entry("closingWindow", "delegate", "live")) EXCEPT !.closingWindow = @ + 1]

(***************************************************************************)
(* Window_vulkan::teardown: the nested if statements, innermost first.     *)
(* state is the state teardown() was entered with.                         *)
(***************************************************************************)
teardownWindowLevel(w) ==
    Bind(Hooks(w, "teardownForWindowLost", ReversedPipelines, "Window", "dead"), LAMBDA w1 :
    closingWindow(w1))

teardownDeviceLevel(w, state) ==
    Bind(Hooks(w, "teardownForDeviceLost", ReversedPipelines, "Device", "dead"), LAMBDA w1 :
    Bind(teardownDevice(w1), LAMBDA w2 :
    IF StateGE(state, "WindowLost") THEN teardownWindowLevel(w2) ELSE w2))

teardownSurfaceLevel(w, state) ==
    Bind(Hooks(w, "teardownForSurfaceLost", ReversedPipelines, "Surface", "dead"), LAMBDA w1 :
    Bind(teardownSurface(w1), LAMBDA w2 :
    IF StateGE(state, "DeviceLost") THEN teardownDeviceLevel(w2, state) ELSE w2))

\* teardownSwapchainLevel with the swapchain released before the render pass
\* that was built from its image format.
teardownSwapchainBeforeRenderPass(w, state) ==
    Bind(waitIdle(w), LAMBDA w1 :
    Bind(Hooks(w1, "teardownForSwapchainLost", ReversedPipelines, "Swapchain", "dead"), LAMBDA w2 :
    Bind(teardownSemaphores(w2), LAMBDA w3 :
    Bind(teardownCommandBuffers(w3), LAMBDA w4 :
    Bind(teardownFramebuffers(w4), LAMBDA w5 :
    Bind(teardownSwapchain(w5), LAMBDA w6 :
    Bind(teardownRenderPasses(w6), LAMBDA w7 :
    IF StateGE(state, "SurfaceLost") THEN teardownSurfaceLevel(w7, state) ELSE w7)))))))

teardownSwapchainLevel(w, state) ==
    Bind(waitIdle(w), LAMBDA w1 :
    Bind(Hooks(w1, "teardownForSwapchainLost", ReversedPipelines, "Swapchain", "dead"), LAMBDA w2 :
    Bind(teardownSemaphores(w2), LAMBDA w3 :
    Bind(teardownCommandBuffers(w3), LAMBDA w4 :
    Bind(teardownFramebuffers(w4), LAMBDA w5 :
    Bind(teardownRenderPasses(w5), LAMBDA w6 :
    Bind(teardownSwapchain(w6), LAMBDA w7 :
    IF StateGE(state, "SurfaceLost") THEN teardownSurfaceLevel(w7, state) ELSE w7)))))))

\* teardownNextState with ReadyToRender treated as a state to leave.
teardownNextStateLeavingReady(state) ==
    CASE StateGE(state, "WindowLost") -> "NoWindow"
      [] StateGE(state, "DeviceLost") -> "NoDevice"
      [] StateGE(state, "SurfaceLost") -> "NoSurface"
      [] StateGE(state, "ReadyToRender") -> "NoSwapchain"
      [] OTHER -> state

\* The value of nextState at the last statement of teardown().
teardownNextState(state) ==
    CASE StateGE(state, "WindowLost") -> "NoWindow"
      [] StateGE(state, "DeviceLost") -> "NoDevice"
      [] StateGE(state, "SurfaceLost") -> "NoSurface"
      [] StateGE(state, "SwapchainLost") -> "NoSwapchain"
      [] OTHER -> state

\* teardown with the cascade entered from ReadyToRender on.
teardownFromReadyToRender(w) ==
    Bind(Enter(w, "teardown"), LAMBDA w0 :
    Bind(IF StateGE(w.state, "ReadyToRender") THEN teardownSwapchainLevel(w0, w.state) ELSE w0,
         LAMBDA w1 :
    Leave(SetState(w1, teardownNextState(w.state)), "teardown")))

teardown(w) ==
    Bind(Enter(w, "teardown"), LAMBDA w0 :
    Bind(IF StateGE(w.state, "SwapchainLost") THEN teardownSwapchainLevel(w0, w.state) ELSE w0,
         LAMBDA w1 :
    Leave(SetState(w1, teardownNextState(w.state)), "teardown")))

(***************************************************************************)
(* Window_vulkan::getImageCountAndExtent.  The result is res = "eSuccess"  *)
(* with the image count and extent, or the vk::SurfaceLostKHRError thrown  *)
(* by getSurfaceCapabilitiesKHR.                                           *)
(***************************************************************************)
clamp(v, lo, hi) == IF v < lo THEN lo ELSE IF hi < v THEN hi ELSE v

\* imageCountFor clamping into the limits as reported, a maximum of 0
\* included.
imageCountWithinReportedLimits(default, minImageCount, maxImageCount) ==
    clamp(default, minImageCount, maxImageCount)

\* ttlet maxImageCount = surfaceCapabilities.maxImageCount ?
\*     surfaceCapabilities.maxImageCount : 10
effectiveMaxImageCount(maxImageCount) == IF maxImageCount # 0 THEN maxImageCount ELSE 10

\* ttlet imageCount = std::clamp(default, minImageCount, maxImageCount)
imageCountFor(default, minImageCount, maxImageCount) ==
    clamp(default, minImageCount, effectiveMaxImageCount(maxImageCount))

imageCountOf(caps) ==
    imageCountFor(defaultNumberOfSwapchainImages, caps.minImageCount, caps.maxImageCount)

getImageCountAndExtent(w, caps) ==
    Bind(Log(w, [Entry("getSurfaceCapabilitiesKHR", "intrinsic", w.obj["intrinsic"]) EXCEPT
                    !.res = caps.res,
                    !.n = IF caps.res = "eSuccess" THEN imageCountOf(caps) ELSE 0,
                    !.extent = caps.currentExtent]), LAMBDA w1 :
    [w |-> IF w.obj["intrinsic"] = "live" THEN w1 ELSE UB(w1),
     res |-> caps.res,
     imageCount |-> imageCountOf(caps),
     extent |-> caps.currentExtent])

(***************************************************************************)
(* Window_vulkan::readSurfaceExtent, checkSurfaceExtent: [w, r] is the     *)
(* window after the call and the value returned.                           *)
(***************************************************************************)
\* extentOutOfRange without the comparison with the minimum size.
extentAboveMaximum(x) ==
    \/ x.width > maximum_widget_size.width \/ x.height > maximum_widget_size.height

\* The extent is smaller than the minimum or larger than the maximum size
\* of the window widget.
extentOutOfRange(x) ==
    \/ x.width < minimum_widget_size.width \/ x.height < minimum_widget_size.height
    \/ x.width > maximum_widget_size.width \/ x.height > maximum_widget_size.height

\* readSurfaceExtent storing the image count and extent it read only when
\* the extent is out of range.
readSurfaceExtentKeepingTheDeferredExtent(w, caps) ==
    Bind(getImageCountAndExtent(w, caps), LAMBDA g :
    IF ~Running(g.w) THEN [w |-> g.w, r |-> FALSE]
    ELSE IF g.res = "eErrorSurfaceLostKHR"
    THEN [w |-> SetState(g.w, "SurfaceLost"), r |-> FALSE]
    ELSE IF extentOutOfRange(g.extent)
    THEN [w |-> [g.w EXCEPT !.nrSwapchainImages = g.imageCount,
                            !.swapchainImageExtent = g.extent],
          r |-> FALSE]
    ELSE [w |-> g.w, r |-> TRUE])

readSurfaceExtent(w, caps) ==
    Bind(getImageCountAndExtent(w, caps), LAMBDA g :
    IF ~Running(g.w) THEN [w |-> g.w, r |-> FALSE]
    ELSE IF g.res = "eErrorSurfaceLostKHR"
    THEN [w |-> SetState(g.w, "SurfaceLost"), r |-> FALSE]
    ELSE [w |-> [g.w EXCEPT !.nrSwapchainImages = g.imageCount,
                            !.swapchainImageExtent = g.extent],
          r |-> ~extentOutOfRange(g.extent)])

\* checkSurfaceExtent comparing the extent only.
checkSurfaceExtentIgnoringImageCount(w, caps) ==
    Bind(getImageCountAndExtent(w, caps), LAMBDA g :
    IF ~Running(g.w) THEN [w |-> g.w, r |-> FALSE]
    ELSE IF g.res = "eErrorSurfaceLostKHR"
    THEN [w |-> SetState(g.w, "SurfaceLost"), r |-> FALSE]
    ELSE [w |-> g.w, r |-> g.extent = w.swapchainImageExtent])

checkSurfaceExtent(w, caps) ==
    Bind(getImageCountAndExtent(w, caps), LAMBDA g :
    IF ~Running(g.w) THEN [w |-> g.w, r |-> FALSE]
    ELSE IF g.res = "eErrorSurfaceLostKHR"
    THEN [w |-> SetState(g.w, "SurfaceLost"), r |-> FALSE]
    ELSE [w |-> g.w,
          r |-> (g.imageCount = w.nrSwapchainImages) /\ (g.extent = w.swapchainImageExtent)])

(***************************************************************************)
(* Window_vulkan::buildSurface: [w, r].                                    *)
(***************************************************************************)
\* buildSurface accepting a score of 0.
buildSurfaceAcceptingScoreZero(w, score) ==
    Bind(Create(w, "createWin32SurfaceKHR", "intrinsic"), LAMBDA w1 :
    [w |-> Log(w1, [Entry("score", "intrinsic", w1.obj["intrinsic"]) EXCEPT !.n = score]),
     r |-> score >= 0])

buildSurface(w, score) ==
    Bind(Create(w, "createWin32SurfaceKHR", "intrinsic"), LAMBDA w1 :
    [w |-> Log(w1, [Entry("score", "intrinsic", w1.obj["intrinsic"]) EXCEPT !.n = score]),
     r |-> score > 0])

(***************************************************************************)
(* Window_vulkan::buildSwapchain: [w, s], s the State returned.  Any       *)
(* result of createSwapchainKHR but success and surface-lost is thrown as  *)
(* a gui_error.                                                            *)
(***************************************************************************)
createSwapchainKHR(w, create) ==
    Log(w, EntryRes("createSwapchainKHR", "swapchain", w.obj["swapchain"], create))

buildSwapchain(w, create) ==
    Bind(Use(w, "createSwapchainKHR", "intrinsic"), LAMBDA w0 :
    IF ~Running(w0) THEN [w |-> w0, s |-> w0.state]
    ELSE CASE create = "eSuccess" ->
                Bind([createSwapchainKHR(w0, create) EXCEPT !.obj["swapchain"] = "live"],
                     LAMBDA w1 :
                Bind(Create(w1, "createImage", "depthImage"), LAMBDA w2 :
                [w |-> Create(w2, "createImage", "colorImage"), s |-> "ReadyToRender"]))
           [] create = "eErrorSurfaceLostKHR" ->
                [w |-> createSwapchainKHR(w0, create), s |-> "SurfaceLost"]
           [] OTHER ->
                [w |-> [createSwapchainKHR(w0, create) EXCEPT !.flow = "threw"],
                 s |-> w0.state])

(***************************************************************************)
(* buildRenderPasses, buildFramebuffers, buildCommandBuffers,              *)
(* buildSemaphores                                                         *)
(***************************************************************************)
buildRenderPasses(w) == Create(w, "createRenderPass", "renderPass")

\* One pass of the loop over swapchainImages: an image view and a
\* framebuffer are created and pushed back.
framebufferOfImage(w) ==
    IF ~Running(w) THEN w
    ELSE Bind([Log(w, [EntryRes("createImageView", "swapchainImageViews", "null", "created")
                          EXCEPT !.n = w.swapchainImageViews + 1])
                  EXCEPT !.swapchainImageViews = @ + 1], LAMBDA w1 :
         Bind(Use(w1, "createFramebuffer", "renderPass"), LAMBDA w2 :
         Bind(Use(w2, "createFramebuffer", "colorImageView"), LAMBDA w3 :
         Bind(Use(w3, "createFramebuffer", "depthImageView"), LAMBDA w4 :
         IF ~Running(w4) THEN w4
         ELSE [Log(w4, [EntryRes("createFramebuffer", "swapchainFramebuffers", "null", "created")
                           EXCEPT !.n = w4.swapchainFramebuffers + 1])
                  EXCEPT !.swapchainFramebuffers = @ + 1]))))

RECURSIVE framebuffersOfImages(_, _, _)
framebuffersOfImages(w, i, n) ==
    IF i > n \/ ~Running(w) THEN w
    ELSE Bind(framebufferOfImage(w), LAMBDA w1 : framebuffersOfImages(w1, i + 1, n))

buildFramebuffers(w) ==
    Bind(Use(w, "createImageView", "depthImage"), LAMBDA w1 :
    Bind(Create(w1, "createImageView", "depthImageView"), LAMBDA w2 :
    Bind(Use(w2, "createImageView", "colorImage"), LAMBDA w3 :
    Bind(Create(w3, "createImageView", "colorImageView"), LAMBDA w4 :
    Bind(Use(w4, "getSwapchainImagesKHR", "swapchain"), LAMBDA w5 :
    Bind(IF Running(w5) THEN [w5 EXCEPT !.swapchainImages = w5.nrSwapchainImages] ELSE w5,
         LAMBDA w6 :
    framebuffersOfImages(w6, 1, w6.swapchainImages)))))))

buildCommandBuffers(w) == Create(w, "allocateCommandBuffers", "commandBuffer")

\* buildSemaphores creating the fence without eSignaled.
buildSemaphoresWithTheFenceUnsignaled(w) ==
    Bind(Create(w, "createSemaphore", "imageAvailableSemaphore"), LAMBDA w1 :
    Bind(Create(w1, "createSemaphore", "renderFinishedSemaphore"), LAMBDA w2 :
    Bind(Create(w2, "createFence", "renderFinishedFence"), LAMBDA w3 :
    IF Running(w3) THEN [w3 EXCEPT !.fenceSignal = "unsignaled"] ELSE w3)))

\* The fence is created signaled.
buildSemaphores(w) ==
    Bind(Create(w, "createSemaphore", "imageAvailableSemaphore"), LAMBDA w1 :
    Bind(Create(w1, "createSemaphore", "renderFinishedSemaphore"), LAMBDA w2 :
    Bind(Create(w2, "createFence", "renderFinishedFence"), LAMBDA w3 :
    IF Running(w3) THEN [w3 EXCEPT !.fenceSignal = "signaled"] ELSE w3)))

windowChangedSize(w) ==
    IF Running(w)
    THEN Log(w, [Entry("windowChangedSize", "widget", "live") EXCEPT
                    !.extent = w.swapchainImageExtent])
    ELSE w

(***************************************************************************)
(* Window_vulkan::build: its three if statements, in order.                *)
(***************************************************************************)
\* build's first if statement without its test of the state.
buildFromNoDeviceInAnyState(w) ==
    IF Running(w) /\ w.device
    THEN Bind(Hooks(w, "buildForNewDevice", Pipelines, "Device", "live"), LAMBDA w1 :
         SetState(w1, "NoSurface"))
    ELSE w

buildFromNoDevice(w) ==
    IF Running(w) /\ w.state = "NoDevice" /\ w.device
    THEN Bind(Hooks(w, "buildForNewDevice", Pipelines, "Device", "live"), LAMBDA w1 :
         SetState(w1, "NoSurface"))
    ELSE w

\* build's second if statement without the buildForNewSurface hooks.
buildFromNoSurfaceWithoutHooks(w, in) ==
    IF Running(w) /\ w.state = "NoSurface"
    THEN Bind(buildSurface(w, in.score), LAMBDA b :
         IF ~b.r
         THEN Return(SetState(b.w, "DeviceLost"))
         ELSE SetState(b.w, "NoSwapchain"))
    ELSE w

buildFromNoSurface(w, in) ==
    IF Running(w) /\ w.state = "NoSurface"
    THEN Bind(buildSurface(w, in.score), LAMBDA b :
         IF ~b.r
         THEN Return(SetState(b.w, "DeviceLost"))
         ELSE Bind(Hooks(b.w, "buildForNewSurface", Pipelines, "Surface", "live"), LAMBDA w1 :
              SetState(w1, "NoSwapchain")))
    ELSE w

\* The statements of the third if statement once the swapchain is created
\* and the extent is confirmed.
buildSwapchainObjects(w) ==
    Bind(buildRenderPasses(w), LAMBDA w1 :
    Bind(buildFramebuffers(w1), LAMBDA w2 :
    Bind(buildCommandBuffers(w2), LAMBDA w3 :
    Bind(buildSemaphores(w3), LAMBDA w4 :
    Bind(Hooks(w4, "buildForNewSwapchain", Pipelines, "Swapchain", "live"), LAMBDA w5 :
    Bind(windowChangedSize(w5), LAMBDA w6 :
    SetState(w6, "ReadyToRender")))))))

buildFromNoSwapchain(w, in) ==
    IF Running(w) /\ w.state = "NoSwapchain"
    THEN Bind(readSurfaceExtent(w, in.caps1), LAMBDA rd :
         IF ~rd.r
         THEN \* Minimized window, can not build a new swap chain.
              Return(SetState(rd.w, "NoSwapchain"))
         ELSE Bind(buildSwapchain(rd.w, in.create), LAMBDA bs :
              IF bs.s # "ReadyToRender"
              THEN Return(SetState(bs.w, bs.s))
              ELSE Bind(checkSurfaceExtent(bs.w, in.caps2), LAMBDA ck :
                   IF ~ck.r
                   THEN Bind(teardownSwapchain(ck.w), LAMBDA w1 : Return(w1))
                   ELSE buildSwapchainObjects(ck.w))))
    ELSE w

build(w, in) ==
    Bind(Enter(w, "build"), LAMBDA w0 :
    Bind(buildFromNoDevice(w0), LAMBDA w1 :
    Bind(buildFromNoSurface(w1, in), LAMBDA w2 :
    Bind(buildFromNoSwapchain(w2, in), LAMBDA w3 :
    Leave(w3, "build")))))

(***************************************************************************)
(* What the collaborators answer during the frame part of render():        *)
(*   need_redraw               widget->update_layout,                      *)
(*   acquire, frameBufferIndex acquireNextImageKHR,                        *)
(*   present                   presentKHR.                                 *)
(***************************************************************************)
AcquireResults ==
    {"eSuccess", "eSuboptimalKHR", "eErrorOutOfDateKHR", "eErrorSurfaceLostKHR",
     "eTimeout", "eErrorDeviceLost"}

PresentResults ==
    {"eSuccess", "eSuboptimalKHR", "eErrorOutOfDateKHR", "eErrorSurfaceLostKHR",
     "eErrorDeviceLost"}

\* acquireNextImageFromSwapchain with out-of-date reported as a lost surface.
acquireReportingOutOfDateAsSurfaceLost(w, f) ==
    Bind(Use(w, "acquireNextImageKHR", "swapchain"), LAMBDA w1 :
    Bind(Use(w1, "acquireNextImageKHR", "imageAvailableSemaphore"), LAMBDA w2 :
    IF ~Running(w2) THEN [w |-> w2, r |-> FALSE]
    ELSE Bind(Log(w2, [EntryRes("acquireNextImageKHR", "result", "live", f.acquire)
                          EXCEPT !.n = f.frameBufferIndex]), LAMBDA w3 :
         CASE f.acquire = "eSuccess" -> [w |-> w3, r |-> TRUE]
           [] f.acquire = "eSuboptimalKHR" -> [w |-> SetState(w3, "SwapchainLost"), r |-> FALSE]
           [] f.acquire = "eErrorOutOfDateKHR" -> [w |-> SetState(w3, "SurfaceLost"), r |-> FALSE]
           [] f.acquire = "eErrorSurfaceLostKHR" -> [w |-> SetState(w3, "SurfaceLost"), r |-> FALSE]
           [] f.acquire = "eTimeout" -> [w |-> w3, r |-> FALSE]
           [] OTHER -> [w |-> [w3 EXCEPT !.flow = "threw"], r |-> FALSE])))

(***************************************************************************)
(* Window_vulkan::acquireNextImageFromSwapchain: [w, r], r = TRUE when an  *)
(* image index is returned.                                                *)
(***************************************************************************)
\* acquireNextImageFromSwapchain with eTimeout handled as eSuboptimalKHR.
acquireReportingTimeoutAsSwapchainLost(w, f) ==
    Bind(Use(w, "acquireNextImageKHR", "swapchain"), LAMBDA w1 :
    Bind(Use(w1, "acquireNextImageKHR", "imageAvailableSemaphore"), LAMBDA w2 :
    IF ~Running(w2) THEN [w |-> w2, r |-> FALSE]
    ELSE Bind(Log(w2, [EntryRes("acquireNextImageKHR", "result", "live", f.acquire)
                          EXCEPT !.n = f.frameBufferIndex]), LAMBDA w3 :
         CASE f.acquire = "eSuccess" -> [w |-> w3, r |-> TRUE]
           [] f.acquire \in {"eSuboptimalKHR", "eErrorOutOfDateKHR", "eTimeout"} ->
                [w |-> SetState(w3, "SwapchainLost"), r |-> FALSE]
           [] f.acquire = "eErrorSurfaceLostKHR" -> [w |-> SetState(w3, "SurfaceLost"), r |-> FALSE]
           [] OTHER -> [w |-> [w3 EXCEPT !.flow = "threw"], r |-> FALSE])))

acquireNextImageFromSwapchain(w, f) ==
    Bind(Use(w, "acquireNextImageKHR", "swapchain"), LAMBDA w1 :
    Bind(Use(w1, "acquireNextImageKHR", "imageAvailableSemaphore"), LAMBDA w2 :
    IF ~Running(w2) THEN [w |-> w2, r |-> FALSE]
    ELSE Bind(Log(w2, [EntryRes("acquireNextImageKHR", "result", "live", f.acquire)
                          EXCEPT !.n = f.frameBufferIndex]), LAMBDA w3 :
         CASE f.acquire = "eSuccess" -> [w |-> w3, r |-> TRUE]
           [] f.acquire = "eSuboptimalKHR" -> [w |-> SetState(w3, "SwapchainLost"), r |-> FALSE]
           [] f.acquire = "eErrorOutOfDateKHR" -> [w |-> SetState(w3, "SwapchainLost"), r |-> FALSE]
           [] f.acquire = "eErrorSurfaceLostKHR" -> [w |-> SetState(w3, "SurfaceLost"), r |-> FALSE]
           [] f.acquire = "eTimeout" -> [w |-> w3, r |-> FALSE]
           [] OTHER -> [w |-> [w3 EXCEPT !.flow = "threw"], r |-> FALSE])))

(***************************************************************************)
(* Window_vulkan::presentImageToQueue                                      *)
(***************************************************************************)
\* presentImageToQueue returning on every result it has no case for.
presentAbsorbingUnlistedResults(w, f) ==
    Bind(Use(w, "presentKHR", "swapchain"), LAMBDA w1 :
    Bind(Use(w1, "presentKHR", "renderFinishedSemaphore"), LAMBDA w2 :
    IF ~Running(w2) THEN w2
    ELSE Bind(Log(w2, [EntryRes("presentKHR", "result", "live", f.present)
                          EXCEPT !.n = f.frameBufferIndex]), LAMBDA w3 :
         CASE f.present = "eErrorSurfaceLostKHR" -> SetState(w3, "SurfaceLost")
           [] f.present \in {"eSuboptimalKHR", "eErrorOutOfDateKHR"} ->
                 SetState(w3, "SwapchainLost")
           [] OTHER -> w3)))

\* presentImageToQueue with a suboptimal present taken as a success.
presentIgnoringSuboptimal(w, f) ==
    Bind(Use(w, "presentKHR", "swapchain"), LAMBDA w1 :
    Bind(Use(w1, "presentKHR", "renderFinishedSemaphore"), LAMBDA w2 :
    IF ~Running(w2) THEN w2
    ELSE Bind(Log(w2, [EntryRes("presentKHR", "result", "live", f.present)
                          EXCEPT !.n = f.frameBufferIndex]), LAMBDA w3 :
         CASE f.present \in {"eSuccess", "eSuboptimalKHR"} -> w3
           [] f.present = "eErrorOutOfDateKHR" -> SetState(w3, "SwapchainLost")
           [] f.present = "eErrorSurfaceLostKHR" -> SetState(w3, "SurfaceLost")
           [] OTHER -> [w3 EXCEPT !.flow = "threw"])))

presentImageToQueue(w, f) ==
    Bind(Use(w, "presentKHR", "swapchain"), LAMBDA w1 :
    Bind(Use(w1, "presentKHR", "renderFinishedSemaphore"), LAMBDA w2 :
    IF ~Running(w2) THEN w2
    ELSE Bind(Log(w2, [EntryRes("presentKHR", "result", "live", f.present)
                          EXCEPT !.n = f.frameBufferIndex]), LAMBDA w3 :
         CASE f.present = "eSuccess" -> w3
           [] f.present = "eSuboptimalKHR" -> SetState(w3, "SwapchainLost")
           [] f.present = "eErrorOutOfDateKHR" -> SetState(w3, "SwapchainLost")
           [] f.present = "eErrorSurfaceLostKHR" -> SetState(w3, "SurfaceLost")
           [] OTHER -> [w3 EXCEPT !.flow = "threw"])))

(***************************************************************************)
(* Window_vulkan::fillCommandBuffer, submitCommandBuffer                   *)
(***************************************************************************)
\* drawInCommandBuffer of the stages ps, a nextSubpass between two stages.
RECURSIVE drawStages(_, _, _)
drawStages(w, ps, subpass) ==
    IF ps = <<>> \/ ~Running(w) THEN w
    ELSE Bind(IF subpass > 0
              THEN Log(w, [Entry("nextSubpass", "commandBuffer", w.obj["commandBuffer"])
                              EXCEPT !.n = subpass])
              ELSE w, LAMBDA w1 :
         Bind(Log(w1, [Entry("drawInCommandBuffer", Head(ps), w1.stage[Head(ps)]["Swapchain"])
                          EXCEPT !.n = subpass]), LAMBDA w2 :
         drawStages(w2, Tail(ps), subpass + 1)))

resetCommandBuffer(w) ==
    IF Running(w)
    THEN Log(w, EntryRes("reset", "commandBuffer", w.obj["commandBuffer"],
                         IF w.gpuBusy THEN "pending" ELSE "idle"))
    ELSE w

beginRenderPass(w, frameBufferIndex) ==
    Bind(Use(w, "beginRenderPass", "renderPass"), LAMBDA w1 :
    IF Running(w1)
    THEN Log(w1, [Entry("beginRenderPass", "swapchainFramebuffers",
                        IF frameBufferIndex < w1.swapchainFramebuffers THEN "live" ELSE "null")
                     EXCEPT !.n = frameBufferIndex + 1])
    ELSE w1)

fillCommandBuffer(w, frameBufferIndex) ==
    Bind(resetCommandBuffer(w), LAMBDA w1 :
    Bind(Use(w1, "begin", "commandBuffer"), LAMBDA w2 :
    Bind(beginRenderPass(w2, frameBufferIndex), LAMBDA w3 :
    Bind(drawStages(w3, Pipelines, 0), LAMBDA w4 :
    Bind(Use(w4, "endRenderPass", "commandBuffer"), LAMBDA w5 :
    Use(w5, "end", "commandBuffer"))))))

submitCommandBuffer(w) ==
    Bind(Use(w, "submit", "imageAvailableSemaphore"), LAMBDA w1 :
    Bind(Use(w1, "submit", "commandBuffer"), LAMBDA w2 :
    Bind(Use(w2, "submit", "renderFinishedSemaphore"), LAMBDA w3 :
    IF Running(w3) THEN [w3 EXCEPT !.gpuBusy = TRUE] ELSE w3)))

(***************************************************************************)
(* Window_vulkan::render, from the acquire to the end-of-tick teardown.    *)
(***************************************************************************)
resetRenderFinishedFence(w) ==
    Bind(Use(w, "resetFences", "renderFinishedFence"), LAMBDA u :
    IF Running(u) THEN [u EXCEPT !.fenceSignal = "unsignaled"] ELSE u)

\* signalRenderFinishedFence submitting no fence.
submitWithoutFence(w) == w

signalRenderFinishedFence(w) ==
    Bind(Use(w, "submit", "renderFinishedFence"), LAMBDA u :
    IF Running(u) THEN [u EXCEPT !.fenceSignal = "queued"] ELSE u)

drawWidget(w) == IF Running(w) THEN Log(w, Entry("draw", "widget", "live")) ELSE w

\* swapchainFramebuffers.at(frameBufferIndex) throws std::out_of_range
frameBufferOutOfRange(w, frameBufferIndex) ==
    [Log(w, [EntryRes("at", "swapchainFramebuffers", "null", "out_of_range")
                EXCEPT !.n = frameBufferIndex + 1])
        EXCEPT !.flow = "threw"]

\* renderFrame with the end-of-tick teardown() also run when the acquire
\* yields no image.
renderFrameTearingDownAfterAcquire(w, f) ==
    Bind(acquireNextImageFromSwapchain(w, f), LAMBDA a :
    IF ~a.r THEN teardown(a.w)
    ELSE IF ~(f.frameBufferIndex < a.w.swapchainFramebuffers)
    THEN frameBufferOutOfRange(a.w, f.frameBufferIndex)
    ELSE Bind(waitForFences(a.w), LAMBDA w1 :
         Bind(resetRenderFinishedFence(w1), LAMBDA w2 :
         Bind(drawWidget(w2), LAMBDA w3 :
         Bind(fillCommandBuffer(w3, f.frameBufferIndex), LAMBDA w4 :
         Bind(submitCommandBuffer(w4), LAMBDA w5 :
         Bind(signalRenderFinishedFence(w5), LAMBDA w6 :
         Bind(presentImageToQueue(w6, f), LAMBDA w7 :
         IF Running(w7) THEN teardown(w7) ELSE w7))))))))

renderFrame(w, f) ==
    Bind(acquireNextImageFromSwapchain(w, f), LAMBDA a :
    IF ~a.r THEN Return(a.w)
    ELSE IF ~(f.frameBufferIndex < a.w.swapchainFramebuffers)
    THEN frameBufferOutOfRange(a.w, f.frameBufferIndex)
    ELSE Bind(waitForFences(a.w), LAMBDA w1 :
         Bind(resetRenderFinishedFence(w1), LAMBDA w2 :
         Bind(drawWidget(w2), LAMBDA w3 :
         Bind(fillCommandBuffer(w3, f.frameBufferIndex), LAMBDA w4 :
         Bind(submitCommandBuffer(w4), LAMBDA w5 :
         Bind(signalRenderFinishedFence(w5), LAMBDA w6 :
         Bind(presentImageToQueue(w6, f), LAMBDA w7 :
         \* Do an early tear down of invalid vulkan objects.
         IF Running(w7) THEN teardown(w7) ELSE w7))))))))

(***************************************************************************)
(* Window_vulkan::render                                                   *)
(***************************************************************************)
\* renderBailsOut with the bail-out taken on the Lost markers only.
renderBailsOutOnLostMarkers(w) == StateGE(w.state, "SwapchainLost")

\* Bail out when the window is not yet ready to be rendered.
renderBailsOut(w) == w.state # "ReadyToRender"

\* The first statements of render(): tear down then build.
renderTeardownBuild(w, in) ==
    Bind(Enter(w, "render"), LAMBDA w0 :
    Bind(teardown(w0), LAMBDA w1 :
    IF Running(w1) THEN build(w1, in) ELSE w1))

update_layout(w, need_redraw) ==
    [Log(w, EntryRes("update_layout", "widget", "live",
                     IF need_redraw THEN "redraw" ELSE "idle"))
        EXCEPT !.requestRedraw = FALSE]

\* setWindowSize: SetWindowPos is handed to the main loop; which end of the
\* preferred size is asked for is kept in res.
setWindowSize(w, end) == Log(w, EntryRes("setWindowSize", "window", "", end))

\* render() without the comparison of the window size.
checkWindowSizeSkipped(w, size) == w

\* The window size compared in render(): requestResize is exchanged
\* with false, and the window is asked to take the minimum of the preferred
\* size when a resize was requested or currentWindowExtent is below the
\* preferred size, the maximum when it is above.  size is how
\* currentWindowExtent compares with widget->preferred_size() in this tick.
checkWindowSize(w, size) ==
    IF w.requestResize \/ size = "below"
    THEN setWindowSize([w EXCEPT !.requestResize = FALSE], "minimum")
    ELSE IF size = "above"
    THEN setWindowSize(w, "maximum")
    ELSE w

\* The statements of render() after teardown() and build().
renderAfterBuild(w, f) ==
    Bind(IF ~Running(w) THEN w
         ELSE IF renderBailsOut(w) THEN Return(w)
         ELSE Bind(checkWindowSize(w, f.size), LAMBDA w0 :
              Bind(update_layout(w0, f.need_redraw \/ w0.requestRedraw), LAMBDA w1 :
              IF ~(f.need_redraw \/ w0.requestRedraw) THEN Return(w1) ELSE renderFrame(w1, f))),
         LAMBDA w2 :
    Leave(w2, "render"))

render(w, in, f) ==
    Bind(renderTeardownBuild(w, in), LAMBDA w2 : renderAfterBuild(w2, f))

(***************************************************************************)
(* The window after construction and initialize(): no device, no handle    *)
(* assigned, the five stages constructed and none given a subpass yet      *)
(* (Len(Pipelines) is no subpass of the render pass).                      *)
(***************************************************************************)
InitWindow ==
    [state |-> "NoDevice",
     device |-> FALSE,
     win32Window |-> TRUE,
     obj |-> [o \in Objects |-> "null"],
     stage |-> [p \in PipelineSet |->
                  [l \in Levels |-> IF l = "Window" THEN "live" ELSE "null"]],
     swapchainImages |-> 0,
     swapchainImageViews |-> 0,
     swapchainFramebuffers |-> 0,
     nrSwapchainImages |-> 0,
     swapchainImageExtent |-> NoExtent,
     subpass |-> [p \in PipelineSet |-> Len(Pipelines)],
     requestRedraw |-> FALSE,
     requestResize |-> FALSE,
     closingWindow |-> 0,
     fenceSignal |-> "unsignaled",
     gpuBusy |-> FALSE,
     flow |-> "run",
     ubCrash |-> FALSE,
     ub |-> FALSE,
     log |-> <<>>]

Init == win = InitWindow

\* No handler is executing and the trace of the last one has been dropped:
\* gui_system_mutex is free and the window waits for its next call.
Waiting(w) == w.log = <<>> /\ ~Halted(w)

\* A handler starts: the trace is the trace of this handler.
Begin(w, ub) == [w EXCEPT !.log = <<>>, !.flow = "run", !.ubCrash = ub, !.ub = FALSE]

End(w) == [w EXCEPT !.ubCrash = FALSE]

\* The second answers of a surface that answered c1 first: the same answer,
\* surface lost, other image-count limits, or a width changed by one.
CheckCaps(c1) ==
    {c \in SurfaceCaps :
        \/ c = c1
        \/ c.res = "eErrorSurfaceLostKHR"
        \/ /\ c.currentExtent = c1.currentExtent
           /\ <<c.minImageCount, c.maxImageCount>> # <<c1.minImageCount, c1.maxImageCount>>
        \/ /\ <<c.minImageCount, c.maxImageCount>> = <<c1.minImageCount, c1.maxImageCount>>
           /\ c.currentExtent.height = c1.currentExtent.height
           /\ c.currentExtent.width - c1.currentExtent.width \in {-1, 1}}

\* The answers that are not asked for are left out: build() asks for
\* nothing after a failed step.
BuildInputs ==
    {i \in [score : 0..1, caps1 : SurfaceCaps, create : CreateResults, caps2 : SurfaceCaps] :
        /\ i.score = 0 => i.caps1.res = "eErrorSurfaceLostKHR"
        /\ i.caps2 \in CheckCaps(i.caps1)
        /\ i.create # "eSuccess" => i.caps2 = i.caps1
        /\ (i.caps1.res = "eErrorSurfaceLostKHR" \/ extentOutOfRange(i.caps1.currentExtent)) =>
               i.create = "eSuccess" /\ i.caps2 = i.caps1}

NoBuildInput == CHOOSE i \in BuildInputs : i.score = 1

\* The answers build() can use when it is entered in state s.
BuildInputsFor(s) ==
    CASE s \in {"NoDevice", "NoSurface"} -> BuildInputs
      [] s = "NoSwapchain" -> {i \in BuildInputs : i.score = 1}
      [] OTHER -> {NoBuildInput}

\* How currentWindowExtent compares with the preferred size of the widget.
SizeChecks == {"fits", "below", "above"}

FrameInputs ==
    {f \in [size : SizeChecks, need_redraw : BOOLEAN, acquire : AcquireResults,
            frameBufferIndex : 0..MaxIndex,
            present : PresentResults] :
        /\ f.acquire # "eSuccess" => f.present = "eSuccess" /\ f.frameBufferIndex = 0
        /\ f.present # "eSuccess" => f.frameBufferIndex = 0}

NoFrameInput ==
    CHOOSE f \in FrameInputs : f.size = "fits" /\ ~f.need_redraw /\ f.acquire = "eTimeout"

\* The answers the frame part of render() can use once build() has returned
\* with window w: the swapchain hands out the indices of its own images.
FrameInputsFor(w) ==
    IF Running(w) /\ ~renderBailsOut(w)
    THEN {f \in FrameInputs :
             /\ f.frameBufferIndex < w.swapchainImages
             /\ f.need_redraw \/ w.requestRedraw \/ f.acquire = NoFrameInput.acquire
             /\ w.requestRedraw => ~f.need_redraw}
    ELSE {NoFrameInput}

(***************************************************************************)
(* Actions: the three operations of the window, the OS events and the GPU. *)
(***************************************************************************)
\* A handler that ran into undefined behaviour has a second outcome, in
\* which the process died at that call.
Build ==
    /\ Waiting(win)
    /\ \E in \in BuildInputsFor(win.state) :
          \E r \in {build(Begin(win, FALSE), in)} :
             \/ win' = End(r)
             \/ r.ub /\ win' = End(build(Begin(win, TRUE), in))

Teardown ==
    /\ Waiting(win)
    /\ \E r \in {teardown(Begin(win, FALSE))} :
          \/ win' = End(r)
          \/ r.ub /\ win' = End(teardown(Begin(win, TRUE)))

Render ==
    /\ Waiting(win)
    /\ \E in \in BuildInputsFor(teardownNextState(win.state)) :
          \E b \in {renderTeardownBuild(Begin(win, FALSE), in)} :
             \E f \in FrameInputsFor(b) :
                \E r \in {renderAfterBuild(b, f)} :
                   \/ win' = End(r)
                   \/ r.ub /\ win' = End(render(Begin(win, TRUE), in, f))

\* WM_DESTROY of windowProc
WmDestroy ==
    /\ Waiting(win)
    /\ win.win32Window
    /\ win' = [Log(Begin(win, FALSE), Entry("enter", "WM_DESTROY", win.state)) EXCEPT
                  !.win32Window = FALSE,
                  !.state = "WindowLost"]

\* WM_PAINT of windowProc: request_redraw
WmPaint ==
    /\ Waiting(win)
    /\ win.win32Window
    /\ ~win.requestRedraw
    /\ win' = [Log(Begin(win, FALSE), Entry("enter", "WM_PAINT", win.state)) EXCEPT
                  !.requestRedraw = TRUE]

\* A widget asks for the window to be resized: requestResize = true.
RequestResize ==
    /\ Waiting(win)
    /\ ~win.requestResize
    /\ win' = [Log(Begin(win, FALSE), Entry("enter", "requestResize", win.state)) EXCEPT
                  !.requestResize = TRUE]

\* Window_base::setDevice: a device is attached to a window that has none.
SetDevice ==
    /\ Waiting(win)
    /\ win.state = "NoDevice"
    /\ ~win.device
    /\ win' = [Log(Begin(win, FALSE), Entry("enter", "setDevice", win.state)) EXCEPT
                  !.device = TRUE]

\* The GPU finishes the work submitted to the graphics queue.
GpuComplete ==
    /\ Waiting(win)
    /\ win.gpuBusy \/ win.fenceSignal = "queued"
    /\ win' = [Log(Begin(win, FALSE), Entry("enter", "gpu", win.state)) EXCEPT
                  !.gpuBusy = FALSE,
                  !.fenceSignal = IF @ = "queued" THEN "signaled" ELSE @]

\* The handler has returned (or its exception has left it) and the next call
\* is awaited: the trace of the finished handler is dropped.
Dispatch ==
    /\ ~Halted(win)
    /\ win.log # <<>>
    /\ win' = Begin(win, FALSE)

Next ==
    \/ Build
    \/ Teardown
    \/ Render
    \/ WmDestroy
    \/ WmPaint
    \/ RequestResize
    \/ SetDevice
    \/ GpuComplete
    \/ Dispatch

Spec == Init /\ [][Next]_vars

(***************************************************************************)
(* The trace of the handler that ran last.                                 *)
(***************************************************************************)
Trace == win.log

\* The handler the trace belongs to and the state it was entered with.
Handler == IF Trace = <<>> THEN "none" ELSE Trace[1].obj

EnteredIn == IF Trace = <<>> THEN "none" ELSE Trace[1].st

IsEnter(i, fn) == Trace[i].op = "enter" /\ Trace[i].obj = fn

IsLeave(i, fn) == Trace[i].op = "leave" /\ Trace[i].obj = fn

Enters(fn) == {j \in DOMAIN Trace : IsEnter(j, fn)}

\* Entry i belongs to the call of fn that was entered at entry j.
InCall(j, i, fn) ==
    /\ IsEnter(j, fn)
    /\ j < i
    /\ \A k \in (j + 1)..(i - 1) : ~IsLeave(k, fn)

\* The call of fn entered at entry j returned at entry k.
ReturnedAt(j, k, fn) == InCall(j, k, fn) /\ IsLeave(k, fn)

\* The last entry of the call of fn entered at entry j: its return, or the
\* end of the trace when the call did not return.
CallEnd(j, fn) ==
    IF \E k \in DOMAIN Trace : ReturnedAt(j, k, fn)
    THEN CHOOSE k \in DOMAIN Trace : ReturnedAt(j, k, fn)
    ELSE Len(Trace)

InTeardown(i) == \E j \in Enters("teardown") : InCall(j, i, "teardown") /\ ~IsLeave(i, "teardown")

Nondecreasing(s) == \A i \in 1..(Len(s) - 1) : s[i] <= s[i + 1]

Nonincreasing(s) == \A i \in 1..(Len(s) - 1) : s[i] >= s[i + 1]

IsRanked(r) == r > 0

\* The ranks, by rank(_), of the ranked entries j+1..k of the trace.
RanksOf(j, k, rank(_)) ==
    SelectSeq([i \in 1..(k - j) |-> rank(Trace[j + i])], IsRanked)

RankSet(s) == {s[i] : i \in DOMAIN s}

\* The GPU objects of the window: the handles and the two vectors.
GpuObjects == Objects \cup {"swapchainFramebuffers", "swapchainImageViews"}

LiveNow(o) ==
    CASE o = "swapchainFramebuffers" -> win.swapchainFramebuffers > 0
      [] o = "swapchainImageViews" -> win.swapchainImageViews > 0
      [] OTHER -> win.obj[o] = "live"

\* The entry is a call that assigns a new object to the handle.
IsCreation(e) == e.res = "created" \/ (e.op = "createSwapchainKHR" /\ e.obj = "swapchain")

\* The entry is a call that waits on, records into, submits, presents,
\* reads or releases a GPU object.
IsGpuCall(e) == e.obj \in GpuObjects /\ e.op \notin {"enter", "leave"} /\ ~IsCreation(e)

(***************************************************************************)
(* C1                                                                      *)
(***************************************************************************)
\* C1 (the code violates it): no call waits on, records into, submits,
\* presents or releases a GPU object that has been released before, i.e. whose
\* handle is dangling.  The claim asks for more, a live object at every such
\* call; a released object at one call refutes it.
C1_NoReleasedObjectIsUsed ==
    \A i \in DOMAIN Trace : IsGpuCall(Trace[i]) => Trace[i].st # "dead"

(***************************************************************************)
(* C2                                                                      *)
(***************************************************************************)
\* The calls of the frame-submission protocol.
FrameOps ==
    {"acquireNextImageKHR", "waitForFences", "resetFences", "reset", "begin",
     "beginRenderPass", "nextSubpass", "drawInCommandBuffer", "endRenderPass", "end",
     "submit", "presentKHR"}

\* C2: in a render() tick every acquire, fence wait or reset, command-buffer
\* recording, submit or present made outside teardown() comes after the
\* tick's build() returned with state ReadyToRender; when build() returns in
\* any other state, render() returns at once, in that state.
C2_FrameOnlyWhenReadyToRender ==
    Handler = "render" =>
        /\ \A i \in DOMAIN Trace :
              Trace[i].op \in FrameOps /\ ~InTeardown(i) =>
                  \E k \in 1..(i - 1) : IsLeave(k, "build") /\ Trace[k].st = "ReadyToRender"
        /\ \A k \in DOMAIN Trace :
              IsLeave(k, "build") /\ Trace[k].st # "ReadyToRender" =>
                  /\ Len(Trace) = k + 1
                  /\ IsLeave(k + 1, "render")
                  /\ Trace[k + 1].st = Trace[k].st

\* C2 witness: a tick whose build() left the window in NoSwapchain and that
\* returned right after it.
C2_Witness ==
    /\ Handler = "render"
    /\ \E k \in DOMAIN Trace :
          /\ IsLeave(k, "build")
          /\ Trace[k].st = "NoSwapchain"
          /\ Len(Trace) = k + 1
          /\ IsLeave(k + 1, "render")

(***************************************************************************)
(* C3                                                                      *)
(***************************************************************************)
\* The release groups of the swapchain level, in the order of the claim.
TeardownRank(e) ==
    CASE e.op = "teardownForSwapchainLost" -> 1
      [] e.op = "destroy" /\ e.obj \in {"renderFinishedSemaphore", "imageAvailableSemaphore",
                                        "renderFinishedFence"} -> 2
      [] e.op = "freeCommandBuffers" -> 3
      [] e.op = "destroy" /\ e.obj \in {"swapchainFramebuffers", "swapchainImageViews",
                                        "depthImageView", "colorImageView"} -> 4
      [] e.op = "destroy" /\ e.obj = "renderPass" -> 5
      [] (e.op = "destroy" /\ e.obj = "swapchain") \/ e.op = "destroyImage" -> 6
      [] OTHER -> 0

\* The same groups for the calls that construct them.
BuildRank(e) ==
    CASE e.op = "buildForNewSwapchain" -> 1
      [] e.op \in {"createSemaphore", "createFence"} -> 2
      [] e.op = "allocateCommandBuffers" -> 3
      [] e.op \in {"createImageView", "createFramebuffer"} /\ e.res = "created" -> 4
      [] e.op = "createRenderPass" -> 5
      [] (e.op = "createSwapchainKHR" /\ e.obj = "swapchain" /\ e.res = "eSuccess")
            \/ e.op = "createImage" -> 6
      [] OTHER -> 0

ObjectRank(o) ==
    CASE o \in {"renderFinishedSemaphore", "imageAvailableSemaphore", "renderFinishedFence"} -> 2
      [] o = "commandBuffer" -> 3
      [] o \in {"swapchainFramebuffers", "swapchainImageViews", "depthImageView",
                "colorImageView"} -> 4
      [] o = "renderPass" -> 5
      [] o \in {"swapchain", "depthImage", "colorImage"} -> 6
      [] OTHER -> 0

AllRanks == {1, 2, 3, 4, 5, 6}

\* C3: a teardown() call entered with state >= SwapchainLost releases the
\* swapchain level in the order hooks, synchronization primitives, command
\* buffer, framebuffers, render pass, swapchain and images, and releases all
\* of them when it returns; a build() that reaches ReadyToRender constructs
\* the same groups in the opposite order; and no object is released while an
\* object built after it is still live.
C3_ReleaseOrderReversesBuildOrder ==
    /\ \A j \in Enters("teardown") :
          /\ Nondecreasing(RanksOf(j, CallEnd(j, "teardown"), TeardownRank))
          /\ (StateGE(Trace[j].st, "SwapchainLost") /\ IsLeave(CallEnd(j, "teardown"), "teardown")) =>
                 RankSet(RanksOf(j, CallEnd(j, "teardown"), TeardownRank)) = AllRanks
          /\ ~StateGE(Trace[j].st, "SwapchainLost") =>
                 RanksOf(j, CallEnd(j, "teardown"), TeardownRank) = <<>>
    /\ \A j \in Enters("build") :
          /\ Nonincreasing(RanksOf(j, CallEnd(j, "build"), BuildRank))
          /\ (Trace[j].st # "ReadyToRender" /\ IsLeave(CallEnd(j, "build"), "build")
                 /\ Trace[CallEnd(j, "build")].st = "ReadyToRender") =>
                 RankSet(RanksOf(j, CallEnd(j, "build"), BuildRank)) = AllRanks
    /\ Handler = "teardown" =>
          \A i \in DOMAIN Trace :
             IsRanked(TeardownRank(Trace[i])) /\ Trace[i].st = "live" =>
                 \A o \in GpuObjects :
                    IsRanked(ObjectRank(o)) /\ ObjectRank(o) < TeardownRank(Trace[i]) =>
                        \/ ~LiveNow(o)
                        \/ \E m \in 1..(i - 1) :
                              Trace[m].obj = o /\ IsRanked(TeardownRank(Trace[m]))

\* C3 witness: a teardown() entered with a Lost marker released a live
\* swapchain and returned.
C3_Witness ==
    /\ Handler = "teardown"
    /\ StateGE(EnteredIn, "SwapchainLost")
    /\ IsLeave(Len(Trace), "teardown")
    /\ \E i \in DOMAIN Trace :
          Trace[i].op = "destroy" /\ Trace[i].obj = "swapchain" /\ Trace[i].st = "live"

(***************************************************************************)
(* C4                                                                      *)
(***************************************************************************)
\* The state below the Lost marker s.
Boundary(s) ==
    CASE s = "SwapchainLost" -> "NoSwapchain"
      [] s = "SurfaceLost" -> "NoSurface"
      [] s = "DeviceLost" -> "NoDevice"
      [] s = "WindowLost" -> "NoWindow"

\* The levels of the cascade that a call ran, from the hooks it called.
LevelsRun(j, k) ==
    {l \in {"Swapchain", "Surface", "Device", "Window"} :
        \E i \in j..k : Trace[i].op = "teardownFor" \o l \o "Lost"}

LevelsOf(s) ==
    CASE s = "SwapchainLost" -> {"Swapchain"}
      [] s = "SurfaceLost" -> {"Swapchain", "Surface"}
      [] s = "DeviceLost" -> {"Swapchain", "Surface", "Device"}
      [] s = "WindowLost" -> {"Swapchain", "Surface", "Device", "Window"}

\* C4 (the code violates it): every teardown() call entered with a Lost
\* marker returns with the state at the boundary of that marker, having run
\* the cascade levels up to the marker's level and no other.
C4_TeardownEndsAtTheBoundary ==
    \A j \in Enters("teardown") :
       Trace[j].st \in LostMarkers =>
           /\ IsLeave(CallEnd(j, "teardown"), "teardown")
           /\ Trace[CallEnd(j, "teardown")].st = Boundary(Trace[j].st)
           /\ LevelsRun(j, CallEnd(j, "teardown")) = LevelsOf(Trace[j].st)

(***************************************************************************)
(* C5                                                                      *)
(***************************************************************************)
\* The calls on surface-level and device-level objects that the recovery
\* from a lost swapchain must not make.
SurfaceAndDeviceOps ==
    {"destroySurfaceKHR", "createWin32SurfaceKHR", "teardownDevice",
     "teardownForSurfaceLost", "teardownForDeviceLost",
     "buildForNewSurface", "buildForNewDevice"}

IsCapabilities(i) == Trace[i].op = "getSurfaceCapabilitiesKHR"

\* During the call of build() entered at entry j the surface reported a
\* drawable extent that did not change, and the swapchain was created.
NominalAnswers(j) ==
    \E c1, c2 \in (j + 1)..CallEnd(j, "build") :
       /\ c1 < c2
       /\ IsCapabilities(c1) /\ IsCapabilities(c2)
       /\ Trace[c1].res = "eSuccess" /\ Trace[c2].res = "eSuccess"
       /\ Trace[c1].n = Trace[c2].n
       /\ Trace[c1].extent = Trace[c2].extent

\* C5 as stated (refuted): the build() of the tick that follows an
\* out-of-date acquire always restores ReadyToRender.
C5_BuildAlwaysRestoresReadyToRender ==
    (Handler = "render" /\ EnteredIn = "SwapchainLost") =>
        \E k \in DOMAIN Trace : IsLeave(k, "build") /\ Trace[k].st = "ReadyToRender"

\* C5 (amended): an out-of-date or suboptimal acquire ends the tick in
\* SwapchainLost; the teardown() of a tick entered in SwapchainLost returns
\* in NoSwapchain; its build() restores ReadyToRender whenever the surface
\* reports a drawable, unchanged extent and the swapchain is created; and up
\* to the end of that build() nothing calls teardownSurface, teardownDevice,
\* buildSurface or a surface-level or device-level stage hook.
C5_OutOfDateRecoversTheSwapchainOnly ==
    Handler = "render" =>
        /\ \A i \in DOMAIN Trace :
              (Trace[i].op = "acquireNextImageKHR" /\ Trace[i].obj = "result"
                  /\ Trace[i].res \in {"eErrorOutOfDateKHR", "eSuboptimalKHR"}) =>
                  /\ Len(Trace) = i + 1
                  /\ IsLeave(i + 1, "render")
                  /\ Trace[i + 1].st = "SwapchainLost"
                  /\ win.state = "SwapchainLost"
        /\ EnteredIn = "SwapchainLost" =>
              \E t, b \in DOMAIN Trace :
                 /\ ReturnedAt(2, t, "teardown")
                 /\ Trace[t].st = "NoSwapchain"
                 /\ b = t + 1
                 /\ IsEnter(b, "build")
                 /\ \A i \in 1..CallEnd(b, "build") : Trace[i].op \notin SurfaceAndDeviceOps
                 /\ NominalAnswers(b) =>
                        /\ IsLeave(CallEnd(b, "build"), "build")
                        /\ Trace[CallEnd(b, "build")].st = "ReadyToRender"

\* C5 witness: a tick entered in SwapchainLost whose build() restored
\* ReadyToRender.
C5_Witness ==
    /\ Handler = "render"
    /\ EnteredIn = "SwapchainLost"
    /\ \E b \in Enters("build") :
          /\ NominalAnswers(b)
          /\ Trace[CallEnd(b, "build")].st = "ReadyToRender"

(***************************************************************************)
(* C6                                                                      *)
(***************************************************************************)
\* C6 (the code violates it): a render() tick entered with WindowLost
\* completes and leaves the state at NoWindow, with no device attached and
\* no GPU object live.
C6_WindowLostTickEndsInNoWindow ==
    (Handler = "render" /\ EnteredIn = "WindowLost") =>
        /\ ~Halted(win)
        /\ win.state = "NoWindow"
        /\ ~win.device
        /\ \A o \in GpuObjects : ~LiveNow(o)

(***************************************************************************)
(* C7                                                                      *)
(***************************************************************************)
\* C7 (the code violates it): a teardown() call entered with WindowLost
\* invokes the delegate's closingWindow, and the callback has then been
\* invoked exactly once in the life of the window.
C7_ClosingWindowOnceForWindowLost ==
    \A j \in Enters("teardown") :
       Trace[j].st = "WindowLost" =>
           /\ Cardinality({i \in DOMAIN Trace : Trace[i].op = "closingWindow"}) = 1
           /\ win.closingWindow = 1

(***************************************************************************)
(* C8                                                                      *)
(***************************************************************************)
\* The first capability query of the call of build() entered at entry j
\* is entry c.
FirstCapabilities(j, c) ==
    /\ c \in (j + 1)..CallEnd(j, "build")
    /\ IsCapabilities(c)
    /\ \A d \in (j + 1)..(c - 1) : ~IsCapabilities(d)

\* C8 (the code violates it): when the capability query that build() makes
\* in state NoSwapchain fails with surface-lost, build() returns with state
\* SurfaceLost.
C8_SurfaceLostQueryLeavesSurfaceLost ==
    \A j \in Enters("build") :
       \A c \in DOMAIN Trace :
          (FirstCapabilities(j, c) /\ Trace[c].res = "eErrorSurfaceLostKHR" /\ ~Halted(win)) =>
              /\ IsLeave(CallEnd(j, "build"), "build")
              /\ Trace[CallEnd(j, "build")].st = "SurfaceLost"

(***************************************************************************)
(* C9, C10: build() and teardown() as functions of the window and of the   *)
(* answers of the collaborators, applied to every window that waits for    *)
(* its next call.                                                          *)
(***************************************************************************)
\* The state and the resources of a window: everything but the trace and
\* the control flow of the handler that produced it.
Core(w) == [w EXCEPT !.log = <<>>, !.flow = "run", !.ub = FALSE, !.ubCrash = FALSE]

\* C9: teardown() in a state below SwapchainLost, and build() in
\* ReadyToRender or in NoDevice with no device attached, change neither the
\* state nor any resource; teardown() after teardown(), and build() after
\* build() under the same answers, change nothing more.
C9_BuildAndTeardownAreIdempotent ==
    Waiting(win) =>
        /\ ~StateGE(win.state, "SwapchainLost") =>
               Core(teardown(Begin(win, FALSE))) = Core(win)
        /\ \A t1 \in {teardown(Begin(win, FALSE))} :
              ~Halted(t1) => Core(teardown(Begin(t1, FALSE))) = Core(t1)
        /\ \A in \in BuildInputs :
              /\ (win.state = "ReadyToRender" \/ (win.state = "NoDevice" /\ ~win.device)) =>
                     Core(build(Begin(win, FALSE), in)) = Core(win)
              /\ \A b1 \in {build(Begin(win, FALSE), in)} :
                    ~Halted(b1) => Core(build(Begin(b1, FALSE), in)) = Core(b1)

\* C9 witness: teardown() ran in ReadyToRender and returned at once, the
\* swapchain still live.
C9_Witness ==
    /\ Handler = "teardown"
    /\ EnteredIn = "ReadyToRender"
    /\ Len(Trace) = 2
    /\ IsLeave(2, "teardown")
    /\ win.state = "ReadyToRender"
    /\ win.obj["swapchain"] = "live"

\* C10 as stated (refuted): whenever build(); teardown(); build() completes
\* under fixed answers, the state after it is the state after the first
\* build().
C10_RebuildReproducesEveryState ==
    Waiting(win) =>
        \A in \in BuildInputs :
           \A b1 \in {build(Begin(win, FALSE), in)} :
              \A t \in {teardown(Begin(b1, FALSE))} :
                 (~Halted(b1) /\ ~Halted(t)) =>
                     build(Begin(t, FALSE), in).state = b1.state

\* C10 (amended): whenever the first build() returns with a state below
\* SwapchainLost, build(); teardown(); build() under fixed answers completes
\* and ends in the state, and with the resources, of the first build().
C10_RebuildReproducesStatesBelowLost ==
    Waiting(win) =>
        \A in \in BuildInputs :
           \A b1 \in {build(Begin(win, FALSE), in)} :
              (~Halted(b1) /\ ~StateGE(b1.state, "SwapchainLost")) =>
                  \A t \in {teardown(Begin(b1, FALSE))} :
                     /\ ~Halted(t)
                     /\ \A b2 \in {build(Begin(t, FALSE), in)} :
                           /\ b2.state = b1.state
                           /\ Core(b2) = Core(b1)

\* C10 witness: a window in NoDevice with a device attached, from which
\* build(); teardown(); build() under nominal answers ends in ReadyToRender
\* as the first build() does.
C10_Witness ==
    /\ Waiting(win)
    /\ win.state = "NoDevice"
    /\ win.device
    /\ \E in \in BuildInputs :
          \E b1 \in {build(Begin(win, FALSE), in)} :
             /\ b1.state = "ReadyToRender"
             /\ build(Begin(teardown(Begin(b1, FALSE)), FALSE), in).state = "ReadyToRender"

(***************************************************************************)
(* C11                                                                     *)
(***************************************************************************)
\* The level a build hook constructs a render stage for: 1 the device, 2
\* the surface, 3 the swapchain; 0 for any other call.
HookLevel(e) ==
    CASE e.op = "buildForNewDevice" -> 1
      [] e.op = "buildForNewSurface" -> 2
      [] e.op = "buildForNewSwapchain" -> 3
      [] OTHER -> 0

\* Between the entries j and k every render stage got the hook op once.
EveryStageOnce(j, k, op) ==
    \A p \in PipelineSet :
       Cardinality({i \in j..k : Trace[i].op = op /\ Trace[i].obj = p}) = 1

\* The call of build() entered at entry j found a device attached and a
\* surface the device can present to.
DeviceAndSurfaceFit(j) ==
    /\ Trace[j].st = "NoDevice"
    /\ j < Len(Trace)
    /\ Trace[j + 1].op = "buildForNewDevice"
    /\ \E s \in (j + 1)..CallEnd(j, "build") : Trace[s].op = "score" /\ Trace[s].n > 0

\* C11: a build() entered in NoDevice with a device attached, a surface the
\* device can present to, a drawable extent that does not change and
\* successful creation calls returns in ReadyToRender; it has called the
\* build hooks of every stage for the device, then the surface, then the
\* swapchain, the surface created between the first two and the swapchain
\* between the last two; the state after its first if statement is
\* NoSurface and after its second NoSwapchain.
C11_BuildFromNoDeviceReachesReadyToRender ==
    /\ \A j \in Enters("build") :
          (DeviceAndSurfaceFit(j) /\ NominalAnswers(j)) =>
              \E k \in DOMAIN Trace :
                 /\ ReturnedAt(j, k, "build")
                 /\ Trace[k].st = "ReadyToRender"
                 /\ EveryStageOnce(j, k, "buildForNewDevice")
                 /\ EveryStageOnce(j, k, "buildForNewSurface")
                 /\ EveryStageOnce(j, k, "buildForNewSwapchain")
                 /\ \A a, b \in j..k :
                       (HookLevel(Trace[a]) # 0 /\ HookLevel(Trace[a]) < HookLevel(Trace[b]))
                           => a < b
                 /\ \A a, b \in j..k :
                       (Trace[a].op = "createWin32SurfaceKHR" /\ HookLevel(Trace[b]) # 0) =>
                           (a < b <=> HookLevel(Trace[b]) > 1)
                 /\ \A a, b \in j..k :
                       (IsCreation(Trace[a]) /\ Trace[a].obj = "swapchain"
                            /\ HookLevel(Trace[b]) # 0) =>
                           (a < b <=> HookLevel(Trace[b]) > 2)
    /\ (Waiting(win) /\ win.state = "NoDevice" /\ win.device) =>
          \A w1 \in {buildFromNoDevice(Enter(Begin(win, FALSE), "build"))} :
             /\ w1.state = "NoSurface"
             /\ \A in \in BuildInputs :
                   in.score > 0 => buildFromNoSurface(w1, in).state = "NoSwapchain"

\* C11 witness: such a build() has returned in ReadyToRender, every stage
\* built for the swapchain.
C11_Witness ==
    /\ Handler = "build"
    /\ DeviceAndSurfaceFit(1)
    /\ NominalAnswers(1)
    /\ IsLeave(Len(Trace), "build")
    /\ win.state = "ReadyToRender"
    /\ \A p \in PipelineSet : win.stage[p]["Swapchain"] = "live"

(***************************************************************************)
(* C12                                                                     *)
(***************************************************************************)
\* Entry c is the first capability query of the call of build() entered at
\* entry j.
FirstQueryOf(j, c) ==
    /\ IsEnter(j, "build")
    /\ j < c
    /\ IsCapabilities(c)
    /\ \A i \in (j + 1)..(c - 1) : Trace[i].obj # "build" /\ ~IsCapabilities(i)

\* The number of entries between j and k that push a new element on the
\* vector vec.
Pushed(j, k, vec) ==
    Cardinality({i \in j..k : Trace[i].obj = vec /\ Trace[i].res = "created"})

\* C12: whenever the state is ReadyToRender the window holds one framebuffer
\* and one image view per swapchain image, and at least one; a build() that
\* returns in ReadyToRender after creating a swapchain has pushed as many
\* image views and framebuffers as the image count it read; every
\* framebuffer looked up by an acquired image index exists.
C12_OneFramebufferAndViewPerImage ==
    /\ win.state = "ReadyToRender" =>
          /\ win.swapchainImages > 0
          /\ win.swapchainFramebuffers = win.swapchainImages
          /\ win.swapchainImageViews = win.swapchainImages
    /\ \A k \in DOMAIN Trace :
          (IsLeave(k, "build") /\ Trace[k].st = "ReadyToRender") =>
              \A j, c \in 1..(k - 1) :
                 (IsCapabilities(c) /\ FirstQueryOf(j, c) /\ ReturnedAt(j, k, "build")) =>
                     /\ Pushed(j, k, "swapchainImageViews") = Trace[c].n
                     /\ Pushed(j, k, "swapchainFramebuffers") = Trace[c].n
    /\ \A i \in DOMAIN Trace :
          /\ Trace[i].op # "at"
          /\ (Trace[i].op = "beginRenderPass" /\ Trace[i].obj = "swapchainFramebuffers") =>
                Trace[i].st = "live"

\* C12 witness: a tick that tore down a lost swapchain, built a new one of
\* two images and rendered into the framebuffer of the second image.
C12_Witness ==
    /\ Handler = "render"
    /\ EnteredIn = "SwapchainLost"
    /\ win.state = "ReadyToRender"
    /\ win.swapchainImages = 2
    /\ win.swapchainFramebuffers = 2
    /\ \E i \in DOMAIN Trace :
          /\ Trace[i].op = "beginRenderPass"
          /\ Trace[i].obj = "swapchainFramebuffers"
          /\ Trace[i].n = 2

(***************************************************************************)
(* C13                                                                     *)
(***************************************************************************)
ZeroArea(x) == x.width = 0 \/ x.height = 0

\* The call of build() entered at entry j returned right after its first
\* capability query, entry c, in state NoSwapchain: it called no hook and
\* created nothing after the query.
DeferredAt(j, c) ==
    /\ c < Len(Trace)
    /\ ReturnedAt(j, c + 1, "build")
    /\ Trace[c + 1].st = "NoSwapchain"
    /\ \A i \in j..(c + 1) :
          /\ ~IsCreation(Trace[i]) \/ Trace[i].obj = "intrinsic"
          /\ Trace[i].op # "createSwapchainKHR"
          /\ Trace[i].op # "buildForNewSwapchain"

OutOfRangeAnswers ==
    {in \in BuildInputs :
        /\ in.score = 1
        /\ in.caps1.res = "eSuccess"
        /\ extentOutOfRange(in.caps1.currentExtent)}

CompliantAnswers ==
    {in \in BuildInputs :
        /\ in.score = 1
        /\ in.caps1.res = "eSuccess"
        /\ ~extentOutOfRange(in.caps1.currentExtent)}

UndisturbedAnswers ==
    {in \in CompliantAnswers : in.create = "eSuccess" /\ in.caps2 = in.caps1}

\* One tick of a window that is not ready afterwards: render() returns
\* after build().
Tick(w, in) == render(Begin(w, FALSE), in, NoFrameInput)

\* The tick w ended deferred: render() returned in NoSwapchain, nothing
\* thrown, nothing created and no hook called.
Deferred(w) ==
    /\ ~Halted(w)
    /\ w.flow = "run"
    /\ w.state = "NoSwapchain"
    /\ w.log # <<>>
    /\ w.log[Len(w.log)].op = "leave"
    /\ w.log[Len(w.log)].obj = "render"
    /\ \A i \in DOMAIN w.log :
          ~IsCreation(w.log[i]) /\ w.log[i].op # "buildForNewSwapchain"

\* C14 as stated (refuted): the first tick after the extent complies reaches
\* ReadyToRender, whatever the swapchain creation and the re-read of the
\* surface answer in that tick.
C14_FirstCompliantTickAlwaysReady ==
    (Waiting(win) /\ win.state = "NoSwapchain") =>
        \A in1 \in OutOfRangeAnswers :
           \A t1 \in {Tick(win, in1)} :
              Deferred(t1) =>
                  \A in2 \in CompliantAnswers :
                     renderTeardownBuild(Begin(t1, FALSE), in2).state = "ReadyToRender"

\* C14 (amended): a tick entered in NoSwapchain in which the surface reports
\* an extent below the minimum or above the maximum size of the widget
\* returns in NoSwapchain, nothing thrown, created or hooked, and leaves
\* the window waiting in NoSwapchain, where the same holds of the next tick
\* (shown here for the same extent reported again); and the build() of the
\* first tick in which the extent complies returns in ReadyToRender,
\* provided the swapchain creation succeeds and the re-read of the surface
\* is unchanged in that tick.
C14_OutOfRangeExtentDefersUntilItComplies ==
    (Waiting(win) /\ win.state = "NoSwapchain") =>
        \A in1 \in OutOfRangeAnswers :
           \A t1 \in {Tick(win, in1)} :
              /\ Deferred(t1)
              /\ t1.obj = win.obj
              /\ Deferred(Tick(t1, in1))
              /\ \A in2 \in UndisturbedAnswers :
                    \A b2 \in {renderTeardownBuild(Begin(t1, FALSE), in2)} :
                       /\ ~Halted(b2)
                       /\ b2.state = "ReadyToRender"
                       /\ b2.swapchainImageExtent = in2.caps1.currentExtent
                       /\ b2.obj["swapchain"] = "live"

\* C14 witness: a window waiting in NoSwapchain after a deferred tick, the
\* extent it read last being out of range, whose next tick reaches
\* ReadyToRender when the extent complies.
C14_Witness ==
    /\ Waiting(win)
    /\ win.state = "NoSwapchain"
    /\ win.nrSwapchainImages > 0
    /\ extentOutOfRange(win.swapchainImageExtent)
    /\ ~ZeroArea(win.swapchainImageExtent)
    /\ \E in2 \in UndisturbedAnswers :
          renderTeardownBuild(Begin(win, FALSE), in2).state = "ReadyToRender"

(***************************************************************************)
(* C15                                                                     *)
(***************************************************************************)
\* In the call of build() entered at entry j, c1 is the first capability
\* query and c2 the one made after the swapchain was created, and c2
\* answered an image count or an extent other than c1.
RereadDiffers(j, c1, c2) ==
    /\ IsCapabilities(c2)
    /\ IsCapabilities(c1)
    /\ IsEnter(j, "build")
    /\ j < c1 /\ c1 < c2
    /\ \A i \in (j + 1)..c2 :
          /\ Trace[i].obj # "build"
          /\ IsCapabilities(i) => i \in {c1, c2}
    /\ Trace[c1].res = "eSuccess" /\ Trace[c2].res = "eSuccess"
    /\ Trace[c1].n # Trace[c2].n \/ Trace[c1].extent # Trace[c2].extent

\* The objects teardownSwapchain releases.
SwapchainAndImages == {"swapchain", "depthImage", "colorImage"}

\* C15: when the capability query build() repeats after creating the
\* swapchain answers another image count or extent than the first, the next
\* three calls release the swapchain and the depth and colour images just
\* created, and build() then returns in NoSwapchain; the call has created
\* no render pass, image view, framebuffer, command buffer, semaphore or
\* fence and called no buildForNewSwapchain.
C15_ChangedRereadReleasesTheSwapchain ==
    \A c2 \in DOMAIN Trace :
       IsCapabilities(c2) =>
          \A j, c1 \in 1..(c2 - 1) :
             RereadDiffers(j, c1, c2) =>
                 /\ c2 + 4 <= Len(Trace)
                 /\ \A o \in SwapchainAndImages :
                       \E i \in (c2 + 1)..(c2 + 3) :
                          /\ Trace[i].obj = o
                          /\ Trace[i].op \in {"destroy", "destroyImage"}
                          /\ Trace[i].st = "live"
                 /\ IsLeave(c2 + 4, "build")
                 /\ Trace[c2 + 4].st = "NoSwapchain"
                 /\ \A i \in j..(c2 + 4) : BuildRank(Trace[i]) \notin 1..5
                 /\ Handler = "build" =>
                       /\ win.state = "NoSwapchain"
                       /\ \A o \in SwapchainAndImages : win.obj[o] = "dead"
                       /\ win.swapchainFramebuffers = 0

\* C15 witness: a build() whose re-read reported another image count for
\* the same extent, returned in NoSwapchain with the swapchain released.
C15_Witness ==
    /\ Handler = "build"
    /\ win.state = "NoSwapchain"
    /\ win.obj["swapchain"] = "dead"
    /\ \E c1, c2 \in DOMAIN Trace :
          /\ RereadDiffers(1, c1, c2)
          /\ Trace[c1].extent = Trace[c2].extent
          /\ Trace[c1].n # Trace[c2].n

(***************************************************************************)
(* C16                                                                     *)
(***************************************************************************)
\* C16: when the device scores the surface build() has just created in
\* state NoSurface at 0 or less, the next entry is the return of build()
\* with state DeviceLost; the call has called no buildForNewSurface, made no
\* capability query and no createSwapchainKHR, and created nothing but the
\* surface.
C16_UnsupportedSurfaceStopsBuild ==
    \A s \in DOMAIN Trace :
       (Trace[s].op = "score" /\ Trace[s].n <= 0) =>
           /\ s > 1 /\ s < Len(Trace)
           /\ Trace[s - 1].op = "createWin32SurfaceKHR"
           /\ IsLeave(s + 1, "build")
           /\ Trace[s + 1].st = "DeviceLost"
           /\ \E j \in 1..(s - 1) :
                 /\ ReturnedAt(j, s + 1, "build")
                 /\ Trace[j].st \in {"NoDevice", "NoSurface"}
                 /\ \A i \in j..(s + 1) :
                       /\ Trace[i].op \notin {"buildForNewSurface", "buildForNewSwapchain",
                                              "getSurfaceCapabilitiesKHR", "createSwapchainKHR"}
                       /\ IsCreation(Trace[i]) => Trace[i].obj = "intrinsic"
           /\ Handler = "build" =>
                 /\ win.state = "DeviceLost"
                 /\ \A p \in PipelineSet : win.stage[p]["Surface"] # "live"

\* C16 witness: a build() entered in NoSurface whose surface the device
\* scored at 0, returned in DeviceLost.
C16_Witness ==
    /\ Handler = "build"
    /\ EnteredIn = "NoSurface"
    /\ Len(Trace) = 4
    /\ Trace[3].op = "score"
    /\ Trace[3].n = 0
    /\ win.state = "DeviceLost"

(***************************************************************************)
(* C17                                                                     *)
(***************************************************************************)
\* The entry is a teardown hook of a stage, the closingWindow call, or the
\* release of a resource.
IsHookOrRelease(e) ==
    e.op \in {"teardownForSwapchainLost", "teardownForSurfaceLost", "teardownForDeviceLost",
              "teardownForWindowLost", "closingWindow", "destroy", "destroyImage",
              "freeCommandBuffers", "destroySurfaceKHR", "teardownDevice"}

IsDeviceWaitIdle(e) == e.op = "waitIdle" /\ e.obj = "_device"

IsFenceWait(e) == e.op = "waitForFences" /\ e.obj = "renderFinishedFence"

\* C17: a teardown() entered with a state of SwapchainLost or above starts
\* with waitIdle(): the wait on the render-finished fence, when the window
\* holds a fence handle, and then the device wait-idle; every teardown hook
\* and every release of the call comes after the device wait-idle, and a
\* call that returns has made it.  The call makes no hook or release
\* without it: it ends at the failed assertion of waitIdle() when no device
\* is attached.  A teardown() entered with a lower state returns at once,
\* without a wait.
C17_WaitIdleBeforeHooksAndReleases ==
    \A j \in Enters("teardown") :
       /\ j < Len(Trace)
       /\ ~StateGE(Trace[j].st, "SwapchainLost") => IsLeave(j + 1, "teardown")
       /\ StateGE(Trace[j].st, "SwapchainLost") =>
             /\ \/ Trace[j + 1].op = "tt_assert" /\ Len(Trace) = j + 1 /\ win.flow = "aborted"
                \/ IsDeviceWaitIdle(Trace[j + 1])
                \/ /\ IsFenceWait(Trace[j + 1])
                   /\ Trace[j + 1].st # "null"
                   /\ \/ Len(Trace) = j + 1 /\ Halted(win)
                      \/ j + 1 < Len(Trace) /\ IsDeviceWaitIdle(Trace[j + 2])
             /\ \A i \in (j + 1)..CallEnd(j, "teardown") :
                   /\ IsHookOrRelease(Trace[i]) =>
                         \E d \in (j + 1)..(i - 1) : IsDeviceWaitIdle(Trace[d])
                   /\ IsFenceWait(Trace[i]) => i = j + 1
                   /\ IsDeviceWaitIdle(Trace[i]) => i \in {j + 1, j + 2}
                   /\ IsLeave(i, "teardown") =>
                         \E d \in (j + 1)..(i - 1) : IsDeviceWaitIdle(Trace[d])

\* C17 witness: a teardown() entered in SwapchainLost waited on the fence,
\* then for the device, then called the hooks and released the objects, and
\* returned in NoSwapchain.
C17_Witness ==
    /\ Handler = "teardown"
    /\ EnteredIn = "SwapchainLost"
    /\ Len(Trace) > 4
    /\ IsFenceWait(Trace[2])
    /\ Trace[2].st = "live"
    /\ IsDeviceWaitIdle(Trace[3])
    /\ Trace[4].op = "teardownForSwapchainLost"
    /\ IsLeave(Len(Trace), "teardown")
    /\ win.state = "NoSwapchain"

(***************************************************************************)
(* C18                                                                     *)
(***************************************************************************)
\* The entry is the result res of acquireNextImageKHR.
IsAcquired(e, res) == e.op = "acquireNextImageKHR" /\ e.obj = "result" /\ e.res = res

\* The state acquireNextImageFromSwapchain and presentImageToQueue assign
\* for a result that reports a loss.
LostStateOf(res) ==
    CASE res \in {"eSuboptimalKHR", "eErrorOutOfDateKHR"} -> "SwapchainLost"
      [] res = "eErrorSurfaceLostKHR" -> "SurfaceLost"
      [] OTHER -> "none"

LossResults == {"eSuboptimalKHR", "eErrorOutOfDateKHR", "eErrorSurfaceLostKHR"}

\* C18: when acquireNextImageKHR reports suboptimal or out-of-date, or
\* surface-lost, the next and last entry of the tick is the return of
\* render() with state SwapchainLost, respectively SurfaceLost: no fence
\* wait or reset, no command buffer call, no submit, no present and no
\* teardown() follows the acquire in that tick, and every object is as live
\* as it was.
C18_AcquireLossReturnsWithTheLostMarker ==
    \A i \in DOMAIN Trace :
       \A res \in LossResults :
          IsAcquired(Trace[i], res) =>
              /\ Len(Trace) = i + 1
              /\ IsLeave(i + 1, "render")
              /\ Trace[i + 1].st = LostStateOf(res)
              /\ win.state = LostStateOf(res)
              /\ win.flow = "run"
              /\ \A o \in SwapchainObjects : win.obj[o] = "live"
              /\ Trace[i - 1].op = "acquireNextImageKHR"
              /\ Trace[i - 3].op = "update_layout"

\* C18 witness: a tick whose acquire reported surface-lost returned in
\* SurfaceLost with the swapchain still live.
C18_Witness ==
    /\ Handler = "render"
    /\ Len(Trace) > 4
    /\ IsAcquired(Trace[Len(Trace) - 1], "eErrorSurfaceLostKHR")
    /\ win.state = "SurfaceLost"
    /\ win.obj["swapchain"] = "live"
    /\ win.obj["renderFinishedFence"] = "live"

(***************************************************************************)
(* C19                                                                     *)
(***************************************************************************)
\* C19: when acquireNextImageKHR reports eTimeout, the next and last entry
\* of the tick is the return of render() with state ReadyToRender: no fence
\* wait or reset, no submit, no present and no teardown() follows the
\* acquire; the tick has not reset the fence, has waited on it only in the
\* teardown() it began with, has submitted and presented nothing, and every
\* swapchain-level object is live.
C19_AcquireTimeoutReturnsReady ==
    \A i \in DOMAIN Trace :
       IsAcquired(Trace[i], "eTimeout") =>
           /\ Len(Trace) = i + 1
           /\ IsLeave(i + 1, "render")
           /\ Trace[i + 1].st = "ReadyToRender"
           /\ win.state = "ReadyToRender"
           /\ win.flow = "run"
           /\ \A o \in SwapchainObjects : win.obj[o] = "live"
           /\ win.swapchainFramebuffers = win.swapchainImages
           /\ \A k \in DOMAIN Trace :
                 /\ Trace[k].op \notin {"submit", "presentKHR", "resetFences"}
                 /\ IsFenceWait(Trace[k]) => InTeardown(k)

\* C19 witness: a tick entered in ReadyToRender that needed a redraw, got
\* eTimeout from the acquire and returned in ReadyToRender, the fence still
\* waiting for the frame submitted before.
C19_Witness ==
    /\ Handler = "render"
    /\ EnteredIn = "ReadyToRender"
    /\ Len(Trace) > 4
    /\ IsAcquired(Trace[Len(Trace) - 1], "eTimeout")
    /\ win.state = "ReadyToRender"
    /\ win.fenceSignal = "queued"

(***************************************************************************)
(* C20                                                                     *)
(***************************************************************************)
\* The entry is the result res of presentKHR.
IsPresented(e, res) == e.op = "presentKHR" /\ e.obj = "result" /\ e.res = res

\* C20: when presentKHR reports suboptimal or out-of-date, or surface-lost,
\* the next entry is the end-of-tick teardown() entered with state
\* SwapchainLost, respectively SurfaceLost; that teardown() returns in
\* NoSwapchain, respectively NoSurface, having released every
\* swapchain-level object, and the surface too in the latter case, each
\* of them live until then; render() returns next, as the last entry, in
\* that state.
C20_PresentLossIsTornDownInTheSameTick ==
    \A i \in DOMAIN Trace :
       \A res \in LossResults :
          IsPresented(Trace[i], res) =>
              /\ i + 1 < Len(Trace)
              /\ IsEnter(i + 1, "teardown")
              /\ Trace[i + 1].st = LostStateOf(res)
              /\ IsLeave(Len(Trace) - 1, "teardown")
              /\ ReturnedAt(i + 1, Len(Trace) - 1, "teardown")
              /\ IsLeave(Len(Trace), "render")
              /\ Trace[Len(Trace)].st = teardownNextState(LostStateOf(res))
              /\ win.state = teardownNextState(LostStateOf(res))
              /\ win.state \in {"NoSwapchain", "NoSurface"}
              /\ win.flow = "run"
              /\ \A o \in SwapchainObjects : win.obj[o] = "dead"
              /\ win.swapchainFramebuffers = 0 /\ win.swapchainImageViews = 0
              /\ (win.obj["intrinsic"] = "dead") <=> (res = "eErrorSurfaceLostKHR")
              /\ \A k \in (i + 1)..Len(Trace) :
                    IsHookOrRelease(Trace[k]) => Trace[k].st = "live"

\* C20 witness: a tick whose present reported surface-lost returned in
\* NoSurface, the surface and the swapchain released.
C20_Witness ==
    /\ Handler = "render"
    /\ win.state = "NoSurface"
    /\ win.obj["intrinsic"] = "dead"
    /\ win.obj["swapchain"] = "dead"
    /\ \E i \in DOMAIN Trace : IsPresented(Trace[i], "eErrorSurfaceLostKHR")

(***************************************************************************)
(* C21                                                                     *)
(***************************************************************************)
\* Entry k belongs to the frame whose image was acquired at entry i: it
\* comes after the acquire and before the end-of-tick teardown().
InFrame(i, k) == i < k /\ \A m \in (i + 1)..k : ~IsEnter(m, "teardown")

\* The entries of the frame acquired at entry i that satisfy P.
FrameEntries(i, P(_)) == {k \in (i + 1)..Len(Trace) : InFrame(i, k) /\ P(Trace[k])}

IsFenceReset(e) == e.op = "resetFences" /\ e.obj = "renderFinishedFence"

IsFenceSignal(e) == e.op = "submit" /\ e.obj = "renderFinishedFence"

IsRecording(e) == e.obj = "commandBuffer" /\ e.op \in {"reset", "begin", "nextSubpass", "endRenderPass", "end"}

IsSubmission(e) == e.op = "submit" /\ e.obj = "commandBuffer"

\* C21: in every tick whose acquire succeeds the next two calls are the wait
\* on the render-finished fence and its reset; the frame has exactly one
\* wait, one reset and one submission that signals the fence, every
\* recording call and the submission of the command buffer come after the
\* reset, and the signal is queued after the submission of the command
\* buffer.  Hence, whenever a handler has ended with a live fence, a signal
\* of the fence is queued or has happened: the next wait returns.
C21_FenceWaitResetSignalOncePerFrame ==
    /\ \A i \in DOMAIN Trace :
          IsAcquired(Trace[i], "eSuccess") =>
              /\ i + 2 <= Len(Trace)
              /\ IsFenceWait(Trace[i + 1]) /\ Trace[i + 1].st = "live"
              /\ IsFenceReset(Trace[i + 2]) /\ Trace[i + 2].st = "live"
              /\ FrameEntries(i, IsFenceWait) = {i + 1}
              /\ FrameEntries(i, IsFenceReset) = {i + 2}
              /\ Cardinality(FrameEntries(i, IsFenceSignal)) = 1
              /\ Cardinality(FrameEntries(i, IsSubmission)) = 1
              /\ FrameEntries(i, IsRecording) # {}
              /\ \A s \in FrameEntries(i, IsFenceSignal) :
                    \A c \in FrameEntries(i, IsSubmission) \cup FrameEntries(i, IsRecording) :
                       i + 2 < c /\ c < s
    /\ (win.obj["renderFinishedFence"] = "live" /\ ~Halted(win)) =>
          win.fenceSignal \in {"queued", "signaled"}

\* C21 witness: a tick entered in ReadyToRender acquired, submitted and
\* presented a frame and ended with the signal of the fence queued.
C21_Witness ==
    /\ Handler = "render"
    /\ EnteredIn = "ReadyToRender"
    /\ \E i \in DOMAIN Trace : IsAcquired(Trace[i], "eSuccess")
    /\ \E k \in DOMAIN Trace : IsPresented(Trace[k], "eSuccess")
    /\ win.state = "ReadyToRender"
    /\ win.fenceSignal = "queued"

(***************************************************************************)
(* C22                                                                     *)
(***************************************************************************)
\* The entry resets, starts recording into, submits or frees the command
\* buffer.
TakesCommandBuffer(e) ==
    e.obj = "commandBuffer" /\ e.op \in {"reset", "begin", "submit", "freeCommandBuffers"}

\* Entry k is a wait that returns only when the work submitted before has
\* completed: the wait on the live fence, whose signal is queued behind the
\* command buffer, or the device wait-idle.
WaitsForTheGpu(k) ==
    \/ IsFenceWait(Trace[k]) /\ Trace[k].st = "live"
    \/ IsDeviceWaitIdle(Trace[k])

\* C22: the command buffer is reset, recorded, submitted or freed only after
\* a wait for the GPU made by the same handler, with no submission of the
\* command buffer between that wait and the call; a reset never finds a
\* submission of it executing; and whenever a handler ends with a
\* submission still executing, the command buffer and the fence are live
\* and the signal of the fence is queued behind it, so that the next wait
\* on the fence covers it.  With the GPU completing work on its own, at
\* most one submission of the command buffer is ever in flight.
C22_CommandBufferNeverTakenWhileExecuting ==
    /\ \A i \in DOMAIN Trace :
          TakesCommandBuffer(Trace[i]) =>
              /\ Trace[i].op = "reset" => Trace[i].res = "idle"
              /\ \E k \in 1..(i - 1) :
                    /\ WaitsForTheGpu(k)
                    /\ \A m \in (k + 1)..(i - 1) : ~IsSubmission(Trace[m])
    /\ win.gpuBusy =>
          /\ win.obj["commandBuffer"] = "live"
          /\ win.obj["renderFinishedFence"] = "live"
          /\ win.fenceSignal = "queued"

\* C22 witness: a window waiting in ReadyToRender with the submission of
\* the last frame still executing, whose next tick records a new frame, the
\* reset of the command buffer finding it idle.
C22_Witness ==
    /\ Waiting(win)
    /\ win.state = "ReadyToRender"
    /\ win.gpuBusy
    /\ \E f \in FrameInputs :
          /\ f.need_redraw /\ f.acquire = "eSuccess" /\ f.frameBufferIndex = 0
          /\ \E r \in {render(Begin(win, FALSE), NoBuildInput, f)} :
                \E i \in DOMAIN r.log :
                   /\ r.log[i].op = "reset"
                   /\ r.log[i].obj = "commandBuffer"
                   /\ r.log[i].res = "idle"

(***************************************************************************)
(* C23                                                                     *)
(***************************************************************************)
\* The calls of a frame on the swapchain, the fence and the queues.
IsFrameGpuCall(e) ==
    e.op \in {"acquireNextImageKHR", "waitForFences", "resetFences", "submit", "presentKHR"}

\* The ends of the preferred size the trace asks the OS to resize to.
ResizesAskedFor(w) ==
    {w.log[i].res : i \in {k \in DOMAIN w.log : w.log[k].op = "setWindowSize"}}

\* What render() has to ask the OS for.
ResizeDue(w, size) ==
    IF w.requestResize \/ size = "below" THEN {"minimum"}
    ELSE IF size = "above" THEN {"maximum"}
    ELSE {}

\* C23: a tick entered in ReadyToRender with no redraw request pending and
\* a layout update that asks for no redraw makes no acquire, fence, submit
\* or present call and returns in ReadyToRender; the test of the window
\* size is still made: a pending resize request is consumed and the OS is
\* asked for the minimum of the preferred size, and a window below or above
\* the preferred size is asked to take its minimum or maximum.
C23_IdleTickStillChecksTheWindowSize ==
    (Waiting(win) /\ win.state = "ReadyToRender" /\ ~win.requestRedraw) =>
        \A f \in {g \in FrameInputs : ~g.need_redraw} :
           \A r \in {render(Begin(win, FALSE), NoBuildInput, f)} :
              /\ \A i \in DOMAIN r.log : ~IsFrameGpuCall(r.log[i])
              /\ r.flow = "run"
              /\ r.log[Len(r.log)].op = "leave" /\ r.log[Len(r.log)].obj = "render"
              /\ r.state = "ReadyToRender"
              /\ ~r.requestResize
              /\ ResizesAskedFor(r) = ResizeDue(win, f.size)

\* C23 witness: a window waiting in ReadyToRender with a resize request and
\* no redraw request pending, whose idle tick asks the OS for the resize.
C23_Witness ==
    /\ Waiting(win)
    /\ win.state = "ReadyToRender"
    /\ win.requestResize
    /\ ~win.requestRedraw
    /\ \A r \in {render(Begin(win, FALSE), NoBuildInput, NoFrameInput)} :
          /\ ResizesAskedFor(r) = {"minimum"}
          /\ ~r.requestResize
          /\ \A i \in DOMAIN r.log : ~IsFrameGpuCall(r.log[i])

(***************************************************************************)
(* The window procedure.                                                   *)
(*                                                                         *)
(* A second specification over the same variable.  win is here the window  *)
(* as the message thread and the render thread see it, statement by        *)
(* statement:                                                              *)
(*   owner, count  the thread that owns gui_system_mutex and how often it  *)
(*                 has locked it (the mutex is recursive),                 *)
(*   calls         the activations of _WindowProc on the message thread,   *)
(*                 innermost last: the message, the position in its        *)
(*                 statements, whether the OS call at that position has    *)
(*                 been made and has not yet returned, what                *)
(*                 find_win32_window answered, whether the handle had been *)
(*                 erased when the activation began, and the lock count    *)
(*                 createMouseEvent was entered with,                      *)
(*   renderAt      where the render thread is in render(),                 *)
(*   creating      createWindow() has not yet returned from                *)
(*                 CreateWindowExW,                                        *)
(*   win32_window_map  the handle of the window is in the map,             *)
(*   map_owner     the thread that owns win32_window_map_mutex,            *)
(*   added, erased the handle has been inserted, has been erased,          *)
(*   trackingMouseLeaveEvent, _request_setting_change, requestRedraw,      *)
(*   win32Window, state   the members of the window that are followed,     *)
(*   lastWrite     the last write to a member of the window: the member,   *)
(*                 the thread and the lock count of that thread,           *)
(*   lastCall      the last call into the OS, with the lock count,         *)
(*   entryCount    the lock count at the last entry of windowProc,         *)
(*   flow          "crashed" after undefined behaviour killed the process. *)
(***************************************************************************)
\* The deepest nesting of _WindowProc that is followed.
MaxNesting == 2

ButtonUpMessages == {"WM_LBUTTONUP"}

ButtonDownMessages == {"WM_LBUTTONDOWN"}

DoubleClickMessages == {"WM_LBUTTONDBLCLK"}

\* The messages windowProc hands to createMouseEvent, one button standing
\* for the four.
MouseMessages ==
    ButtonUpMessages \cup ButtonDownMessages \cup DoubleClickMessages
        \cup {"WM_MOUSEWHEEL", "WM_MOUSEMOVE", "WM_MOUSELEAVE"}

Messages ==
    {"WM_GETMINMAXINFO", "WM_NCCREATE", "WM_DESTROY", "WM_ERASEBKGND", "WM_PAINT",
     "WM_NCPAINT", "WM_SETTINGCHANGE", "WM_WIN_LANGUAGE_CHANGE", "WM_NCHITTEST",
     "WM_CAPTURECHANGED"} \cup MouseMessages

Step(op, arg, n) == [op |-> op, arg |-> arg, n |-> n]

Lock == Step("lock", "gui_system_mutex", 0)

Unlock == Step("unlock", "gui_system_mutex", 0)

Write(member) == Step("write", member, 0)

Call(fn) == Step("call", fn, 0)

\* tt_assume(gui_system_mutex.recurse_lock_count() == 0) at a place of the
\* code.
tt_assume(place) == Step("tt_assume", place, 0)

\* if (!trackingMouseLeaveEvent ...): the n statements of the branch are
\* skipped when the mouse is tracked already.
UnlessTracking(n) == Step("unlessTracking", "trackingMouseLeaveEvent", n)

\* if (!a_button_is_pressed): the n statements of the branch are skipped
\* when the message says that a button is still down.
UnlessPressed(n) == Step("unlessPressed", "a_button_is_pressed", n)

\* setCursor(cursor) with a cursor that differs from currentCursor and is
\* not Cursor::None.
setCursor == <<Lock, Write("currentCursor"), Unlock, Call("SetCursor")>>

\* createMouseEvent without the lock() that follows TrackMouseEvent.
createMouseEventNotLockingAgain(uMsg) ==
    <<tt_assume("createMouseEvent entry"), Lock>>
    \o (CASE uMsg \in ButtonUpMessages ->
                <<UnlessPressed(4), Unlock, tt_assume("createMouseEvent"),
                  Call("ReleaseCapture"), Lock>>
          [] uMsg \in ButtonDownMessages ->
                <<Unlock, tt_assume("createMouseEvent"), Call("SetCapture"), Lock>>
          [] uMsg \in DoubleClickMessages -> <<Write("doubleClickTimePoint")>>
          [] uMsg = "WM_MOUSELEAVE" ->
                <<Write("trackingMouseLeaveEvent"), Write("currentCursor")>>
          [] OTHER -> <<>>)
    \o (IF uMsg # "WM_MOUSELEAVE"
        THEN <<UnlessTracking(4), Unlock, tt_assume("createMouseEvent"),
               Call("TrackMouseEvent"), Write("trackingMouseLeaveEvent")>>
        ELSE <<>>)
    \o (IF uMsg \notin {"WM_MOUSEWHEEL", "WM_MOUSEMOVE"}
        THEN <<Write("mouseButtonEvent")>>
        ELSE <<>>)
    \o <<Unlock, tt_assume("createMouseEvent exit")>>

\* createMouseEvent, as far as it locks, writes a member of the window or
\* calls into the OS.
createMouseEvent(uMsg) ==
    <<tt_assume("createMouseEvent entry"), Lock>>
    \o (CASE uMsg \in ButtonUpMessages ->
                <<UnlessPressed(4), Unlock, tt_assume("createMouseEvent"),
                  Call("ReleaseCapture"), Lock>>
          [] uMsg \in ButtonDownMessages ->
                <<Unlock, tt_assume("createMouseEvent"), Call("SetCapture"), Lock>>
          [] uMsg \in DoubleClickMessages -> <<Write("doubleClickTimePoint")>>
          [] uMsg = "WM_MOUSELEAVE" ->
                <<Write("trackingMouseLeaveEvent"), Write("currentCursor")>>
          [] OTHER -> <<>>)
    \o (IF uMsg # "WM_MOUSELEAVE"
        THEN <<UnlessTracking(5), Unlock, tt_assume("createMouseEvent"),
               Call("TrackMouseEvent"), Lock, Write("trackingMouseLeaveEvent")>>
        ELSE <<>>)
    \o (IF uMsg \notin {"WM_MOUSEWHEEL", "WM_MOUSEMOVE"}
        THEN <<Write("mouseButtonEvent")>>
        ELSE <<>>)
    \o <<Unlock, tt_assume("createMouseEvent exit")>>

\* The statements of windowProc for a message, as far as they lock, write a
\* member of the window or call into the OS.
windowProc(uMsg) ==
    CASE uMsg = "WM_DESTROY" -> <<Lock, Write("win32Window"), Write("state"), Unlock>>
      [] uMsg = "WM_ERASEBKGND" -> <<>>
      [] uMsg = "WM_PAINT" ->
            <<Lock, Call("BeginPaint"), Write("requestRedraw"), Call("EndPaint"), Unlock>>
      [] uMsg = "WM_NCPAINT" -> <<Lock, Write("requestRedraw"), Unlock>>
      [] uMsg = "WM_SETTINGCHANGE" ->
            <<Lock, Write("doubleClickMaximumDuration"), Write("_request_setting_change"),
              Unlock>>
      [] uMsg = "WM_WIN_LANGUAGE_CHANGE" -> <<Write("_request_setting_change")>>
      [] uMsg = "WM_NCHITTEST" -> <<Lock, Unlock>> \o setCursor
      [] uMsg \in MouseMessages -> createMouseEvent(uMsg)
      [] OTHER -> <<>>

\* windowProc returned -1: the message is handed to DefWindowProc.
ReturnsMinusOne(uMsg) == uMsg \notin {"WM_ERASEBKGND", "WM_NCHITTEST"}

MapLock == Step("lock", "win32_window_map_mutex", 0)

MapUnlock == Step("unlock", "win32_window_map_mutex", 0)

\* The three functions of the map of windows: each one takes a scoped lock
\* on win32_window_map_mutex for its one operation on the map.
add_win32_window == <<MapLock, Step("insert", "win32_window_map", 0), MapUnlock>>

\* find_win32_window returning with win32_window_map_mutex still locked.
find_win32_windowKeepingTheLock == <<MapLock, Step("find", "win32_window_map", 0)>>

find_win32_window == <<MapLock, Step("find", "win32_window_map", 0), MapUnlock>>

erase_win32_window == <<MapLock, Step("erase", "win32_window_map", 0), MapUnlock>>

\* _WindowProc with the handle erased only once DefWindowProc has returned.
_WindowProcErasingAfterTheDefaultProcedure(uMsg, found) ==
    (IF uMsg = "WM_NCCREATE" THEN add_win32_window ELSE <<>>)
    \o find_win32_window
    \o (IF found
        THEN <<tt_assume("_WindowProc")>>
             \o windowProc(uMsg)
             \o (IF ReturnsMinusOne(uMsg) THEN <<Call("DefWindowProc")>> ELSE <<>>)
             \o (IF uMsg = "WM_DESTROY" THEN erase_win32_window ELSE <<>>)
        ELSE <<Call("DefWindowProc")>>)

\* _WindowProc for a message; found is what find_win32_window answered.
\* CreateWindowExW is called with the window in lpCreateParams, so
\* WM_NCCREATE adds.
_WindowProc(uMsg, found) ==
    (IF uMsg = "WM_NCCREATE" THEN add_win32_window ELSE <<>>)
    \o find_win32_window
    \o (IF found
        THEN <<tt_assume("_WindowProc")>>
             \o windowProc(uMsg)
             \o (IF uMsg = "WM_DESTROY" THEN erase_win32_window ELSE <<>>)
             \o (IF ReturnsMinusOne(uMsg) THEN <<Call("DefWindowProc")>> ELSE <<>>)
        ELSE <<Call("DefWindowProc")>>)

\* The messages the OS can send to the window before a call into it
\* returns.
SentBy(fn) ==
    CASE fn = "BeginPaint" -> {"WM_ERASEBKGND", "WM_NCPAINT"}
      [] fn \in {"SetCapture", "ReleaseCapture"} -> {"WM_CAPTURECHANGED"}
      [] fn = "TrackMouseEvent" -> {"WM_MOUSELEAVE"}
      [] fn = "DefWindowProc" -> {"WM_NCPAINT", "WM_ERASEBKGND", "WM_CAPTURECHANGED"}
      [] OTHER -> {}

\* gui_system_mutex.recurse_lock_count() as thread t reads it.
recurse_lock_count(w, t) == IF w.owner = t THEN w.count ELSE 0

\* createWindow() has called CreateWindowExW, which has not yet sent a
\* message.
WindowProcInit ==
    win = [owner |-> "none",
           count |-> 0,
           calls |-> <<>>,
           renderAt |-> "idle",
           creating |-> TRUE,
           win32_window_map |-> FALSE,
           map_owner |-> "none",
           added |-> FALSE,
           erased |-> FALSE,
           trackingMouseLeaveEvent |-> FALSE,
           _request_setting_change |-> FALSE,
           requestRedraw |-> FALSE,
           win32Window |-> FALSE,
           state |-> "Initializing",
           lastWrite |-> [member |-> "", thread |-> "", count |-> 1],
           lastCall |-> [fn |-> "", count |-> 0],
           entryCount |-> 0,
           flow |-> "run"]

\* The innermost activation of _WindowProc and the statement it is at.
Top == win.calls[Len(win.calls)]

StatementsOf(call) == _WindowProc(call.uMsg, call.found)

AtStatement == Top.pc <= Len(StatementsOf(Top))

Statement == StatementsOf(Top)[Top.pc]

\* The message thread is at a statement with operation op on arg.
AtOn(op, args) ==
    /\ win.flow = "run"
    /\ win.calls # <<>>
    /\ ~Top.inCall
    /\ AtStatement
    /\ Statement.op = op
    /\ Statement.arg \in args

At(op) == AtOn(op, {Statement.arg})

\* The innermost activation moved on by n statements.
Advance(w, n) == [w EXCEPT !.calls[Len(w.calls)].pc = @ + n]

\* A new activation of _WindowProc for the message.
Activation(uMsg) ==
    [uMsg |-> uMsg, pc |-> 1, inCall |-> FALSE, found |-> FALSE,
     afterErase |-> win.erased, entry |-> 0]

mutex_lock(w, t) == [w EXCEPT !.owner = t, !.count = @ + 1]

mutex_unlock(w) ==
    [w EXCEPT !.count = @ - 1, !.owner = IF w.count = 1 THEN "none" ELSE @]

\* The member is assigned by thread t.
Assign(w, member, t) ==
    [CASE member = "win32Window" -> [w EXCEPT !.win32Window = FALSE]
       [] member = "state" -> [w EXCEPT !.state = "WindowLost"]
       [] member = "requestRedraw" -> [w EXCEPT !.requestRedraw = (t = "message")]
       [] member = "_request_setting_change" ->
             [w EXCEPT !._request_setting_change = (t = "message")]
       [] member = "trackingMouseLeaveEvent" ->
             [w EXCEPT !.trackingMouseLeaveEvent = (Top.uMsg # "WM_MOUSELEAVE")]
       [] OTHER -> w
     EXCEPT !.lastWrite = [member |-> member, thread |-> t,
                           count |-> recurse_lock_count(w, t)]]

\* The messages the OS can take from the queue of the thread: WM_NCCREATE
\* once, while the window is created; the messages of a window that is
\* shown once it has been created.
Deliverable ==
    {uMsg \in Messages :
        CASE uMsg = "WM_NCCREATE" -> win.creating /\ ~win.added
          [] uMsg = "WM_GETMINMAXINFO" -> TRUE
          [] uMsg = "WM_DESTROY" -> ~win.creating /\ ~win.erased
          [] OTHER -> ~win.creating}

\* The OS calls _WindowProc with a message for the window.
Deliver ==
    /\ win.flow = "run"
    /\ win.calls = <<>>
    /\ \E uMsg \in Deliverable : win' = [win EXCEPT !.calls = <<Activation(uMsg)>>]

\* CreateWindowExW returns the handle to createWindow(), which stores it.
CreateWindowReturns ==
    /\ win.flow = "run"
    /\ win.calls = <<>>
    /\ win.creating
    /\ win.added
    /\ win' = [win EXCEPT !.creating = FALSE, !.win32Window = TRUE]

\* The count that an assumption found is kept for the entry of windowProc
\* and for the entry of createMouseEvent.
Assumed(w, place, n) ==
    CASE place = "_WindowProc" -> [w EXCEPT !.entryCount = n]
      [] place = "createMouseEvent entry" -> [w EXCEPT !.calls[Len(w.calls)].entry = n]
      [] OTHER -> w

\* tt_assume(gui_system_mutex.recurse_lock_count() == 0): a count that is
\* not 0 is undefined behaviour, which the process survives or not.
EntryAssumption ==
    /\ At("tt_assume")
    /\ \E n \in {recurse_lock_count(win, "message")} :
          \/ win' = Advance(Assumed(win, Statement.arg, n), 1)
          \/ n # 0 /\ win' = [Assumed(win, Statement.arg, n) EXCEPT !.flow = "crashed"]

MutexLock ==
    /\ AtOn("lock", {"gui_system_mutex"})
    /\ win.owner \in {"none", "message"}
    /\ win' = Advance(mutex_lock(win, "message"), 1)

MutexUnlock ==
    /\ AtOn("unlock", {"gui_system_mutex"})
    /\ win' = Advance(mutex_unlock(win), 1)

WriteMember ==
    /\ At("write")
    /\ win' = Advance(Assign(win, Statement.arg, "message"), 1)

TestTracking ==
    /\ At("unlessTracking")
    /\ win' = Advance(win, IF win.trackingMouseLeaveEvent THEN Statement.n + 1 ELSE 1)

\* a_button_is_pressed is read from the wParam of the message.
TestButtons ==
    /\ At("unlessPressed")
    /\ \E a_button_is_pressed \in BOOLEAN :
          win' = Advance(win, IF a_button_is_pressed THEN Statement.n + 1 ELSE 1)

\* std::scoped_lock(win32_window_map_mutex): the mutex is not recursive, a
\* thread that finds it taken waits.
MapMutexLock ==
    /\ AtOn("lock", {"win32_window_map_mutex"})
    /\ win.map_owner = "none"
    /\ win' = [Advance(win, 1) EXCEPT !.map_owner = "message"]

MapMutexUnlock ==
    /\ AtOn("unlock", {"win32_window_map_mutex"})
    /\ win' = [Advance(win, 1) EXCEPT !.map_owner = "none"]

\* win32_window_map[handle] = &window
MapInsert ==
    /\ At("insert")
    /\ win' = [Advance(win, 1) EXCEPT !.win32_window_map = TRUE, !.added = TRUE]

\* win32_window_map.find(handle)
MapFind ==
    /\ At("find")
    /\ win' = [Advance(win, 1) EXCEPT !.calls[Len(win.calls)].found = win.win32_window_map]

\* win32_window_map.erase(i) when the handle is found
MapErase ==
    /\ At("erase")
    /\ win' = [Advance(win, 1) EXCEPT !.win32_window_map = FALSE,
                                      !.erased = @ \/ win.win32_window_map]

\* The message thread calls into the OS.
CallOs ==
    /\ At("call")
    /\ win' = [win EXCEPT !.calls[Len(win.calls)].inCall = TRUE,
                          !.lastCall = [fn |-> Statement.arg,
                                        count |-> recurse_lock_count(win, "message")]]

\* Before the call returns the OS sends a message to the window.
Reenter ==
    /\ win.flow = "run"
    /\ win.calls # <<>>
    /\ Top.inCall
    /\ Len(win.calls) < MaxNesting
    /\ \E uMsg \in SentBy(Statement.arg) :
          win' = [win EXCEPT !.calls = Append(@, Activation(uMsg))]

CallReturns ==
    /\ win.flow = "run"
    /\ win.calls # <<>>
    /\ Top.inCall
    /\ win' = [Advance(win, 1) EXCEPT !.calls[Len(win.calls)].inCall = FALSE]

\* _WindowProc returns to the OS.
ProcReturns ==
    /\ win.flow = "run"
    /\ win.calls # <<>>
    /\ ~AtStatement
    /\ win' = [win EXCEPT !.calls = SubSeq(@, 1, Len(@) - 1)]

\* render() on the render thread: the scoped lock, the exchange of
\* _request_setting_change and of requestRedraw, the end of the scope.
RenderLock ==
    /\ win.flow = "run"
    /\ ~win.creating
    /\ win.renderAt = "idle"
    /\ win.owner = "none"
    /\ win' = [mutex_lock(win, "render") EXCEPT !.renderAt = "locked"]

RenderExchange ==
    /\ win.flow = "run"
    /\ win.renderAt = "locked"
    /\ win' = [Assign(Assign(win, "requestRedraw", "render"),
                      "_request_setting_change", "render")
                 EXCEPT !.renderAt = "exchanged"]

RenderUnlock ==
    /\ win.flow = "run"
    /\ win.renderAt = "exchanged"
    /\ win' = [mutex_unlock(win) EXCEPT !.renderAt = "idle"]

WindowProcNext ==
    \/ Deliver
    \/ CreateWindowReturns
    \/ EntryAssumption
    \/ MutexLock
    \/ MutexUnlock
    \/ WriteMember
    \/ TestTracking
    \/ TestButtons
    \/ MapMutexLock
    \/ MapMutexUnlock
    \/ MapInsert
    \/ MapFind
    \/ MapErase
    \/ CallOs
    \/ Reenter
    \/ CallReturns
    \/ ProcReturns
    \/ RenderLock
    \/ RenderExchange
    \/ RenderUnlock

WindowProcSpec == WindowProcInit /\ [][WindowProcNext]_vars

(***************************************************************************)
(* C24                                                                     *)
(***************************************************************************)
\* The two threads are both about to assign the same member of the window.
WritesTogether ==
    /\ win.renderAt = "locked"
    /\ At("write")
    /\ Statement.arg \in {"requestRedraw", "_request_setting_change"}

\* C24: every write of the render thread and of the window procedure to a
\* member of the window is made by a thread that holds gui_system_mutex,
\* and the two threads are never about to write the same member together.
C24_EveryWriteHoldsTheMutex ==
    /\ win.lastWrite.count > 0
    /\ ~WritesTogether

(***************************************************************************)
(* C25                                                                     *)
(***************************************************************************)
\* C25: no call into the OS is made by a thread that holds
\* gui_system_mutex, and every entry of _WindowProc finds the lock count of
\* its thread at 0.
C25_NoOsCallUnderTheMutex ==
    /\ win.lastCall.count = 0
    /\ win.entryCount = 0

(***************************************************************************)
(* C26                                                                     *)
(***************************************************************************)
\* The results acquireNextImageFromSwapchain, presentImageToQueue and
\* buildSwapchain have a case for.
ListedByAcquire ==
    {"eSuccess", "eSuboptimalKHR", "eErrorOutOfDateKHR", "eErrorSurfaceLostKHR", "eTimeout"}

ListedByPresent ==
    {"eSuccess", "eSuboptimalKHR", "eErrorOutOfDateKHR", "eErrorSurfaceLostKHR"}

ListedByCreate == {"eSuccess", "eErrorSurfaceLostKHR"}

\* The entry is a result of acquire, present or swapchain creation that the
\* code has no case for.
IsUnlistedResult(e) ==
    \/ e.op = "acquireNextImageKHR" /\ e.obj = "result" /\ e.res \notin ListedByAcquire
    \/ e.op = "presentKHR" /\ e.obj = "result" /\ e.res \notin ListedByPresent
    \/ e.op = "createSwapchainKHR" /\ e.obj = "swapchain" /\ e.res \notin ListedByCreate

\* C26: a result of acquireNextImageKHR, presentKHR or createSwapchainKHR
\* that the code has no case for is the last entry of the trace of its
\* handler, and the handler is left by an exception: no submission follows
\* the acquire, no teardown() the present, no further creation the failed
\* one.
C26_UnlistedResultIsRaisedAtOnce ==
    \A i \in DOMAIN Trace :
       IsUnlistedResult(Trace[i]) => i = Len(Trace) /\ win.flow = "threw"

\* C26 witness: a tick that recorded and submitted a frame and whose
\* presentKHR answered with a lost device.
C26_Witness ==
    /\ Handler = "render"
    /\ \E i \in DOMAIN Trace : IsSubmission(Trace[i])
    /\ IsPresented(Trace[Len(Trace)], "eErrorDeviceLost")
    /\ win.flow = "threw"

(***************************************************************************)
(* C27                                                                     *)
(***************************************************************************)
\* The calls a window that has stopped rendering no longer makes.
IsRenderingCall(e) ==
    e.op \in {"acquireNextImageKHR", "submit", "presentKHR", "createSwapchainKHR"}

\* The traces of the ticks that can follow on window w.
NextTicks(w) ==
    UNION {UNION {{render(Begin(w, FALSE), in, f).log :
                      f \in FrameInputsFor(renderTeardownBuild(Begin(w, FALSE), in))} :
                  in \in BuildInputsFor(teardownNextState(w.state))}}

\* C27: once render() has been left by the exception for an unlisted
\* result, the state of the window is no longer ReadyToRender and no tick
\* that follows acquires, submits, presents or creates a swapchain.
C27_FatalErrorStopsTheWindow ==
    (Handler = "render" /\ win.flow = "threw") =>
        /\ win.state # "ReadyToRender"
        /\ \A log \in NextTicks(win) : \A i \in DOMAIN log : ~IsRenderingCall(log[i])

(***************************************************************************)
(* C28                                                                     *)
(***************************************************************************)
BuildHooks == {"buildForNewDevice", "buildForNewSurface", "buildForNewSwapchain"}

TeardownHooks ==
    {"teardownForSwapchainLost", "teardownForSurfaceLost", "teardownForDeviceLost",
     "teardownForWindowLost"}

\* The place of a stage in the chain, and in the order a hook is to run in.
ChainPlace(p) == CHOOSE n \in 1..Len(Pipelines) : Pipelines[n] = p

HookPlace(e) ==
    IF e.op \in BuildHooks THEN ChainPlace(e.obj) ELSE Len(Pipelines) + 1 - ChainPlace(e.obj)

\* Entry i runs its hook on the stages one after the other in the order of
\* the hook: it follows the same hook of the stage before and is followed
\* by the same hook of the stage after.
InHookOrder(i) ==
    /\ HookPlace(Trace[i]) > 1 =>
          /\ Trace[i - 1].op = Trace[i].op
          /\ HookPlace(Trace[i - 1]) = HookPlace(Trace[i]) - 1
    /\ HookPlace(Trace[i]) < Len(Pipelines) =>
          /\ i < Len(Trace)
          /\ Trace[i + 1].op = Trace[i].op
          /\ HookPlace(Trace[i + 1]) = HookPlace(Trace[i]) + 1

\* C28 (the code violates it): a build hook is called on a stage whose
\* level below is built and not torn down, a teardown hook on a stage whose
\* own level is built and not torn down, and within one level the stages
\* are built in chain order and torn down in the reverse order.
C28_HooksAreProperlyNested ==
    \A i \in DOMAIN Trace :
       /\ Trace[i].op \in BuildHooks => Trace[i].res = "live" /\ InHookOrder(i)
       /\ Trace[i].op \in TeardownHooks => Trace[i].st = "live" /\ InHookOrder(i)

\* The part of C28 the code keeps: build hooks find the level below built,
\* and every hook runs over the stages in its order.
C28_BuildHooksNestedAndOrdered ==
    \A i \in DOMAIN Trace :
       /\ Trace[i].op \in BuildHooks => Trace[i].res = "live" /\ InHookOrder(i)
       /\ Trace[i].op \in TeardownHooks => InHookOrder(i)

(***************************************************************************)
(* C29                                                                     *)
(***************************************************************************)
\* The entries from beginRenderPass to the endRenderPass at entry e, when
\* every stage draws once: a draw for each stage and a nextSubpass between
\* two stages.
FrameStart(e) == e - 2 * Len(Pipelines)

DrawOf(e, k) == FrameStart(e) + 2 * k - 1

\* C29: every endRenderPass closes a render pass that was begun
\* 2 * Len(Pipelines) entries before and in which the k-th stage of the
\* chain draws k-th, in subpass k - 1 (counted from 0), the subpass it was
\* given by buildForNewSwapchain, with one nextSubpass before each stage but
\* the first and nothing else; the subpasses used are as many as the render
\* pass declares and as many as there are stages.
C29_EachStageDrawsOnceInItsSubpass ==
    /\ subpassCount = Len(Pipelines)
    /\ \A e \in DOMAIN Trace :
          Trace[e].op = "endRenderPass" =>
              /\ FrameStart(e) >= 1
              /\ Trace[FrameStart(e)].op = "beginRenderPass"
              /\ \A k \in 1..Len(Pipelines) :
                    /\ Trace[DrawOf(e, k)].op = "drawInCommandBuffer"
                    /\ Trace[DrawOf(e, k)].obj = Pipelines[k]
                    /\ Trace[DrawOf(e, k)].n = k - 1
                    /\ win.subpass[Pipelines[k]] = k - 1
                    /\ k > 1 =>
                          /\ Trace[DrawOf(e, k) - 1].op = "nextSubpass"
                          /\ Trace[DrawOf(e, k) - 1].n = k - 1

\* C29 witness: a tick that recorded a frame, submitted and presented it.
C29_Witness ==
    /\ Handler = "render"
    /\ \E e \in DOMAIN Trace : Trace[e].op = "endRenderPass"
    /\ \E i \in DOMAIN Trace :
          Trace[i].op = "drawInCommandBuffer" /\ Trace[i].obj = "toneMapperPipeline"
    /\ \E i \in DOMAIN Trace : IsPresented(Trace[i], "eSuccess")
    /\ win.subpass["toneMapperPipeline"] = subpassCount - 1

(***************************************************************************)
(* The image count of the swapchain.                                       *)
(*                                                                         *)
(* A third specification over the same variable, for the computation of    *)
(* the image count in getImageCountAndExtent alone.  win is here the       *)
(* configured default, the limits the surface reports (maxImageCount 0: no *)
(* limit; otherwise not below minImageCount) and the image count once it   *)
(* is computed (0 before).                                                 *)
(***************************************************************************)
\* The largest default and limit that are tried.
MaxImageCount == 11

ImageCountInit ==
    \E default \in 1..MaxImageCount, minImageCount \in 1..MaxImageCount,
       maxImageCount \in 0..MaxImageCount :
       /\ maxImageCount = 0 \/ minImageCount <= maxImageCount
       /\ win = [default |-> default,
                 minImageCount |-> minImageCount,
                 maxImageCount |-> maxImageCount,
                 imageCount |-> 0,
                 flow |-> "run"]

\* std::clamp(v, lo, hi) is defined when lo is not above hi.
ClampDefined(w) == w.minImageCount <= effectiveMaxImageCount(w.maxImageCount)

\* getImageCountAndExtent with limits std::clamp is defined for.
GetImageCount ==
    /\ win.flow = "run"
    /\ win.imageCount = 0
    /\ ClampDefined(win)
    /\ win' = [win EXCEPT
                  !.imageCount = imageCountFor(win.default, win.minImageCount, win.maxImageCount),
                  !.flow = "return"]

\* getImageCountAndExtent with a minimum above the maximum: the behaviour
\* of std::clamp is undefined; it returns one of its limits or the process
\* dies in it.
GetImageCountUndefined ==
    /\ win.flow = "run"
    /\ win.imageCount = 0
    /\ ~ClampDefined(win)
    /\ \/ \E n \in {win.minImageCount, effectiveMaxImageCount(win.maxImageCount)} :
             win' = [win EXCEPT !.imageCount = n, !.flow = "return"]
       \/ win' = [win EXCEPT !.flow = "crashed"]

ImageCountNext ==
    \/ GetImageCount
    \/ GetImageCountUndefined

ImageCountSpec == ImageCountInit /\ [][ImageCountNext]_vars

(***************************************************************************)
(* C30                                                                     *)
(***************************************************************************)
\* C30: whenever the minimum is not above the maximum, a maximum of 0
\* counting as 10, the image count computed is the default when the default
\* lies within the two, the minimum when it is below and the maximum when
\* it is above; and whenever the minimum is not above the maximum the
\* surface reports, the image count lies within the two.
C30_ImageCountIsTheClampedDefault ==
    (win.flow = "return" /\ ClampDefined(win)) =>
        /\ win.default < win.minImageCount => win.imageCount = win.minImageCount
        /\ win.default > effectiveMaxImageCount(win.maxImageCount) =>
              win.imageCount = effectiveMaxImageCount(win.maxImageCount)
        /\ /\ win.minImageCount <= win.default
           /\ win.default <= effectiveMaxImageCount(win.maxImageCount)
           => win.imageCount = win.default
        /\ win.maxImageCount = 0 => win.imageCount \in win.minImageCount..10
        /\ win.minImageCount <= win.maxImageCount =>
              win.imageCount \in win.minImageCount..win.maxImageCount

\* C30 witness: a surface with no maximum and a default above 10: the image
\* count computed is 10.
C30_Witness ==
    /\ win.flow = "return"
    /\ win.maxImageCount = 0
    /\ win.default > 10
    /\ win.minImageCount <= 10
    /\ win.imageCount = 10

(***************************************************************************)
(* C31                                                                     *)
(***************************************************************************)
\* The activation has had the answer of find_win32_window.
LookedUp(call) ==
    call.pc > (IF call.uMsg = "WM_NCCREATE" THEN Len(add_win32_window) ELSE 0) + 2

\* The activation is at its call of DefWindowProc, made or about to be.
AtDefWindowProc(call) ==
    /\ call.pc <= Len(StatementsOf(call))
    /\ StatementsOf(call)[call.pc] = Call("DefWindowProc")

\* The statements that do not reach the window: the lookup in the map and
\* the call of DefWindowProc.
PassesTheWindowBy(call) ==
    call.pc <= Len(StatementsOf(call)) =>
        \/ StatementsOf(call)[call.pc].arg \in {"win32_window_map_mutex", "win32_window_map"}
        \/ AtDefWindowProc(call)

AfterWindowLost == {"WindowLost", "NoWindow"}

\* C32: a handler that finds the window in WindowLost leaves it in
\* WindowLost or in NoWindow, every function it enters or leaves finds
\* one of the two, and it is teardown() that sets NoWindow.
C32_WindowLostIsOnlyFollowedByNoWindow ==
    [][win.state = "WindowLost" =>
          /\ win'.state \in AfterWindowLost
          /\ \A i \in DOMAIN win'.log :
                win'.log[i].op \in {"enter", "leave"} => win'.log[i].st \in AfterWindowLost
          /\ win'.state = "NoWindow" =>
                \E i \in DOMAIN win'.log :
                   /\ win'.log[i] = Entry("leave", "teardown", "NoWindow")
                   /\ win'.log[i - 1].op # "enter"]_vars

\* C32 witness: a tick that found the window in WindowLost, ran the
\* cascade of teardown() and left the window in NoWindow.
C32_Witness ==
    /\ Handler = "render"
    /\ EnteredIn = "WindowLost"
    /\ win.state = "NoWindow"
    /\ win.flow = "run"
    /\ \E i \in DOMAIN Trace : IsDeviceWaitIdle(Trace[i])

(***************************************************************************)
(* C33                                                                     *)
(***************************************************************************)
\* The entry is the failure of tt_assert(_device) in waitIdle().
IsDeviceAssertFailure(e) == e.op = "tt_assert" /\ e.obj = "_device" /\ e.res = "failed"

\* C33 (the code violates it): no call of waitIdle() made by teardown()
\* finds the device reference null, so tt_assert(_device) never fails.
C33_DeviceAttachedWheneverTeardownWaits ==
    \A i \in DOMAIN Trace :
       IsDeviceAssertFailure(Trace[i]) => \A j \in DOMAIN Trace : ~InCall(j, i, "teardown")

(***************************************************************************)
(* C34                                                                     *)
(***************************************************************************)
\* C34 (the code violates it): every wait that waitIdle() makes on
\* renderFinishedFence inside teardown() is a wait on a live fence.
C34_WaitIdleWaitsOnALiveFenceOnly ==
    \A i \in DOMAIN Trace :
       (IsFenceWait(Trace[i]) /\ \E j \in DOMAIN Trace : InCall(j, i, "teardown")) =>
          Trace[i].st = "live"

(***************************************************************************)
(* C35                                                                     *)
(***************************************************************************)
\* The tick went on past if (!need_redraw): update_layout or the exchange
\* of requestRedraw asked for a frame.
ConsumesRedraw(e) == e.op = "update_layout" /\ e.res = "redraw"

\* C35 (the code violates it): a render() tick that took a redraw need
\* from update_layout or from requestRedraw has submitted and presented a
\* frame, or has left the window in another state than ReadyToRender.
C35_RedrawRequestIsNeverDropped ==
    (Handler = "render" /\ \E i \in DOMAIN Trace : ConsumesRedraw(Trace[i])) =>
        \/ win.state # "ReadyToRender"
        \/ /\ \E i \in DOMAIN Trace : IsSubmission(Trace[i])
           /\ \E i \in DOMAIN Trace : Trace[i].op = "presentKHR" /\ Trace[i].obj = "result"

(***************************************************************************)
(* C36                                                                     *)
(***************************************************************************)
\* The results with which vkAcquireNextImageKHR has acquired the image and
\* will signal the semaphore: its success codes that come with an image.
AcquiresAnImage(res) == res \in {"eSuccess", "eSuboptimalKHR"}

\* The entry at i is followed by the submission of the command buffer,
\* which waits on imageAvailableSemaphore, and then by the present.
SubmittedAndPresentedAfter(i) ==
    \E j \in DOMAIN Trace : \E k \in DOMAIN Trace :
       /\ i < j
       /\ j < k
       /\ IsSubmission(Trace[j])
       /\ Trace[k].op = "presentKHR"
       /\ Trace[k].obj = "result"

\* C36 (the code violates it): every acquireNextImageKHR of a tick that
\* acquired an image is followed in the same tick by the submission of the
\* command buffer and by presentKHR.
C36_AcquiredImageIsSubmittedAndPresented ==
    Handler = "render" =>
        \A i \in DOMAIN Trace :
           (Trace[i].op = "acquireNextImageKHR" /\ Trace[i].obj = "result"
                /\ AcquiresAnImage(Trace[i].res)) => SubmittedAndPresentedAfter(i)

\* What the code does keep of C36: an acquire that answered eSuccess is
\* followed in the same tick by the submission and by presentKHR.
C36_ImageOfASuccessIsSubmittedAndPresented ==
    Handler = "render" =>
        \A i \in DOMAIN Trace :
           IsAcquired(Trace[i], "eSuccess") => SubmittedAndPresentedAfter(i)

(***************************************************************************)
(* C37                                                                     *)
(***************************************************************************)
\* The entry creates the render-finished fence.
IsFenceCreation(e) == e.op = "createFence" /\ e.obj = "renderFinishedFence"

\* C37: no wait on the live render-finished fence begins with the fence
\* unsignaled and no signal of it queued, in render() or in the waitIdle()
\* of teardown(): no handler is left waiting for ever, every such wait is
\* followed by the next call of its handler, and every reset of the fence
\* is followed in the same handler by the submission that signals it.
C37_EveryFenceWaitFindsASignal ==
    /\ win.flow # "hung"
    /\ \A i \in DOMAIN Trace :
          /\ (IsFenceWait(Trace[i]) /\ Trace[i].st = "live") => i < Len(Trace)
          /\ IsFenceReset(Trace[i]) =>
                \E j \in DOMAIN Trace : i < j /\ IsFenceSignal(Trace[j])

\* C37 witness: the first frame after a build: one tick has created the
\* fence and then waited on it, reset it and queued its signal.
C37_Witness ==
    /\ Handler = "render"
    /\ win.flow = "run"
    /\ win.fenceSignal = "queued"
    /\ \E c \in DOMAIN Trace : \E i \in DOMAIN Trace :
          /\ c < i
          /\ IsFenceCreation(Trace[c])
          /\ IsFenceWait(Trace[i])
          /\ Trace[i].st = "live"
          /\ IsFenceReset(Trace[i + 1])

(***************************************************************************)
(* C38                                                                     *)
(***************************************************************************)
\* The position in the statements of the activation of the assumption made
\* at place; 0 when there is none.
PlaceOf(call, place) ==
    IF \E p \in DOMAIN StatementsOf(call) : StatementsOf(call)[p] = tt_assume(place)
    THEN CHOOSE p \in DOMAIN StatementsOf(call) : StatementsOf(call)[p] = tt_assume(place)
    ELSE 0

\* The activation is inside createMouseEvent: past the assumption at its
\* entry and not past the one before its return.
InCreateMouseEvent(call) ==
    /\ PlaceOf(call, "createMouseEvent entry") # 0
    /\ PlaceOf(call, "createMouseEvent entry") < call.pc
    /\ call.pc <= PlaceOf(call, "createMouseEvent exit")

\* The lock count createMouseEvent must have at a statement: 1 where it
\* reads or writes the window or unlocks, 0 where it locks, calls into the
\* OS or assumes that the count is 0, as it does before its return.
CountWanted(statement) ==
    IF statement.op \in {"write", "unlock", "unlessTracking", "unlessPressed"} THEN 1 ELSE 0

\* C38: createMouseEvent entered with a lock count of 0 has, for every
\* mouse message and either answer about the buttons, the lock held once
\* wherever it touches the window, the lock released at each call into the
\* OS and locked again before the next access, a count of 0 at its return,
\* and the count is never below 0.
C38_CreateMouseEventIsLockBalanced ==
    /\ win.count >= 0
    /\ (win.flow = "run" /\ win.calls # <<>> /\ ~Top.inCall /\ InCreateMouseEvent(Top)
            /\ Top.entry = 0) =>
          recurse_lock_count(win, "message") = CountWanted(Statement)

\* C38 witness: createMouseEvent for a button pressed with the mouse not
\* yet tracked is about to return: it has released the lock for SetCapture
\* and for TrackMouseEvent, has written trackingMouseLeaveEvent and
\* mouseButtonEvent, and the count is 0.
C38_Witness ==
    /\ win.flow = "run"
    /\ win.calls # <<>>
    /\ Top.uMsg = "WM_LBUTTONDOWN"
    /\ Top.pc = PlaceOf(Top, "createMouseEvent exit")
    /\ Top.entry = 0
    /\ win.lastCall.fn = "TrackMouseEvent"
    /\ win.lastWrite.member = "mouseButtonEvent"
    /\ win.trackingMouseLeaveEvent
    /\ recurse_lock_count(win, "message") = 0

(***************************************************************************)
(* C39                                                                     *)
(***************************************************************************)
\* The statement is the one operation on the map that the scoped lock on
\* win32_window_map_mutex covers, or the end of that scope.
IsUnderTheMapMutex(statement) ==
    \/ statement.op \in {"insert", "find", "erase"}
    \/ statement = MapUnlock

\* C39: while win32_window_map_mutex is locked, the message thread is at
\* the insert, lookup or erase the lock was taken for, or at the end of its
\* scope: it is in no call into the OS, DefWindowProc included, at no
\* statement of windowProc, and not locking gui_system_mutex; so every
\* activation of _WindowProc, re-entrant ones included, finds the mutex
\* free when it locks it.
C39_MapMutexCoversOneMapOperation ==
    win.map_owner # "none" =>
        /\ win.calls # <<>>
        /\ ~Top.inCall
        /\ AtStatement
        /\ IsUnderTheMapMutex(Statement)

\* C39 witness: an activation of _WindowProc entered from inside a call
\* into the OS made by another activation has locked the mutex for its
\* lookup.
C39_Witness ==
    /\ win.map_owner = "message"
    /\ Len(win.calls) = 2
    /\ win.calls[1].inCall
    /\ At("find")

====
